---- MODULE Spec2Model ----
(***************************************************************************)
(* A model of the solana-analysis-bot scripts: the LLM fallback chains,    *)
(* the WhatsApp template-variable extraction, the market-data fetch        *)
(* wrappers, the script pipelines, the scheduler loop, the hourly          *)
(* change-detection run, the 24-hour evolution report, the Twilio sender   *)
(* and the sender that prefers the Evolution gateway, the main function    *)
(* of the hybrid analysis and the setup of the gateway session.            *)
(*                                                                         *)
(* Text is modelled as a sequence of one-character strings, so that the    *)
(* substring tests, splits, replacements and float() conversions of the    *)
(* Python code are computed, not assumed.                                  *)
(*                                                                         *)
(* whatsapp_sender.py is shipped with inconsistent indentation (lines      *)
(* that kept the indentation of an earlier revision).  Each such line is   *)
(* read as part of the block its neighbours belong to; where two blocks    *)
(* are possible (send_analysis_summary) the model takes both.              *)
(***************************************************************************)
EXTENDS Integers, Sequences, FiniteSets, TLC

VARIABLES
    \* ---- LLM client (one call of an analysis function) ----
    llmFn,        \* the analysis function being executed
    llmOut,       \* what each model's endpoint will answer
    llmPc,        \* "idle", the model about to be called, or "done"
    llmCalls,     \* the models invoked so far, in order
    llmResult,    \* what the function handed to its caller
    \* ---- _create_whatsapp_summary ----
    tplPc,        \* "idle" or "done"
    tplAnalysis,  \* the analysis text passed in
    tplExtracted, \* the slots after the extraction loops
    tplVars,      \* the slots returned to the caller
    \* ---- data collection of one script run ----
    fScript,      \* the script that is running
    fPlan,        \* the wrapper calls of the run, in order
    fKey,         \* whether COINALYZE_API_KEY is set
    fPos,         \* the next call of fPlan
    fLast,        \* the latest wrapper call and its outcome
    fDefaulted,   \* the functions that went on with a default value
    fStage,       \* "idle", "fetching", "llm" or "aborted"
    \* ---- one run of scheduler.py / o3_pattern_workflow.py ----
    pScript,      \* the script that is running
    pEnv,         \* AUTO_SEND_TO_WHATSAPP
    pPc,          \* the stage about to run
    pPhase,       \* "primary" or "backup" analysis
    pTrace,       \* what the run has done so far, in order
    pFiles,       \* the JSON files on disk
    \* ---- setup_scheduler ----
    sPc,          \* "setup", "initial", "poll" or "sleep"
    sClock,       \* minutes since setup_scheduler was called
    sInterval,    \* interval_minutes
    sNextRun,     \* the job's next_run
    sStarts,      \* when each run of run_analysis_and_send started
    sEnds,        \* when each run returned
    \* ---- run_hourly_analysis ----
    hPc,          \* "idle", "decide", "analyze", "send" or "end"
    hClock,       \* the time, in hours
    hState,       \* the contents of sol_analysis_state.json
    hCurrent,     \* the snapshot of the run
    hEnv,         \* AUTO_SEND_TO_WHATSAPP
    hDecision,    \* what should_send_alert gave
    hDone,        \* what the run has done: "llm", "send", "sent", "save"
    \* ---- sol_24h_evolution_analysis.run ----
    ePc,          \* "idle", "analyze", "send" or "end"
    eEnv,         \* AUTO_SEND_TO_WHATSAPP
    eRecipients,  \* how many recipients are configured
    eSnap,        \* the snapshot of the run
    ePrev,        \* the snapshot the earlier run had
    eDone,        \* what the run has done
    eFailed,      \* the recipients send_message returned False for
    \* ---- WhatsAppSender.send_analysis_summary / send_message ----
    wPc,          \* "idle", "attempt", "send_message", "recipient" or "returned"
    wCaller,      \* the method the caller entered
    wEnv,         \* the Twilio client and the environment variables
    wData,        \* analysis_data
    wLayout,      \* the block the last line of send_analysis_summary is in
    wAttempt,     \* attempt, the loop variable of send_analysis_summary
    wTemplate,    \* template_vars
    wRecipients,  \* recipients of the send_message call
    wIndex,       \* the recipient the loop of send_message is at
    wOutcomes,    \* what the loop came to for the recipients before it
    wSent,        \* what the send_message calls of the caller returned
    wResult,      \* what the caller got: "none", "True" or "False"
    \* ---- EnhancedWhatsAppSender ----
    xPc,          \* "idle", "evolution", "twilio", "none" or "return"
    xEnv,         \* what the process finds when it builds the sender
    xMethod,      \* send_message or send_analysis_summary
    xSender,      \* the fields of the sender
    xTried,       \* the channels the call has used, with their outcomes
    xResult,      \* what the caller got: "none", "True" or "False"
    \* ---- sol_hybrid_analysis.main ----
    yPc,          \* "idle", "whatsapp", "send" or "end"
    yEnv,         \* the environment variables and the Twilio library
    yFetched,     \* the _collect_* functions whose fetch succeeded
    yResult,      \* the text run_hybrid_analysis returned
    ySteps,       \* the steps the run has reached
    yReturn,      \* what main returned: "none", "True" or "False"
    \* ---- setup_evolution.setup_evolution_api ----
    gPc,          \* "idle", "qr", "wait", "groups" or "end"
    gBefore,      \* the state the session reports until it is paired
    gPairAt,      \* seconds after the QR code at which the user pairs
    gClock,       \* seconds wait_for_connection has waited
    gSteps,       \* the steps of the run and the statuses it saw
    gResult       \* what the run returned: "none", "True" or "False"

llmVars == <<llmFn, llmOut, llmPc, llmCalls, llmResult>>

tplVarsAll == <<tplPc, tplAnalysis, tplExtracted, tplVars>>

fetchVars == <<fScript, fPlan, fKey, fPos, fLast, fDefaulted, fStage>>

pipeVars == <<pScript, pEnv, pPc, pPhase, pTrace, pFiles>>

schedVars == <<sPc, sClock, sInterval, sNextRun, sStarts, sEnds>>

hourlyVars == <<hPc, hClock, hState, hCurrent, hEnv, hDecision, hDone>>

evoVars == <<ePc, eEnv, eRecipients, eSnap, ePrev, eDone, eFailed>>

senderVars == <<wPc, wCaller, wEnv, wData, wLayout, wAttempt, wTemplate, wRecipients,
               wIndex, wOutcomes, wSent, wResult>>

enhancedVars == <<xPc, xEnv, xMethod, xSender, xTried, xResult>>

hybridVars == <<yPc, yEnv, yFetched, yResult, ySteps, yReturn>>

setupVars == <<gPc, gBefore, gPairAt, gClock, gSteps, gResult>>

vars == <<llmVars, tplVarsAll, fetchVars, pipeVars, schedVars, hourlyVars, evoVars, senderVars,
         enhancedVars, hybridVars, setupVars>>

\* the variables each part of the model leaves alone
notLLM == <<tplVarsAll, fetchVars, pipeVars, schedVars, hourlyVars, evoVars, senderVars,
    enhancedVars, hybridVars, setupVars>>

notTpl == <<llmVars, fetchVars, pipeVars, schedVars, hourlyVars, evoVars, senderVars,
    enhancedVars, hybridVars, setupVars>>

notFetch == <<llmVars, tplVarsAll, pipeVars, schedVars, hourlyVars, evoVars, senderVars,
    enhancedVars, hybridVars, setupVars>>

notPipe == <<llmVars, tplVarsAll, fetchVars, schedVars, hourlyVars, evoVars, senderVars,
    enhancedVars, hybridVars, setupVars>>

notSched == <<llmVars, tplVarsAll, fetchVars, pipeVars, hourlyVars, evoVars, senderVars,
    enhancedVars, hybridVars, setupVars>>

notHourly == <<llmVars, tplVarsAll, fetchVars, pipeVars, schedVars, evoVars, senderVars,
    enhancedVars, hybridVars, setupVars>>

notEvo == <<llmVars, tplVarsAll, fetchVars, pipeVars, schedVars, hourlyVars, senderVars,
    enhancedVars, hybridVars, setupVars>>

notSender == <<llmVars, tplVarsAll, fetchVars, pipeVars, schedVars, hourlyVars, evoVars,
    enhancedVars, hybridVars, setupVars>>

notEnhanced ==
    <<llmVars, tplVarsAll, fetchVars, pipeVars, schedVars, hourlyVars, evoVars, senderVars, hybridVars, setupVars>>

notHybrid ==
    <<llmVars, tplVarsAll, fetchVars, pipeVars, schedVars, hourlyVars, evoVars, senderVars,
      enhancedVars, setupVars>>

notSetup ==
    <<llmVars, tplVarsAll, fetchVars, pipeVars, schedVars, hourlyVars, evoVars, senderVars,
      enhancedVars, hybridVars>>

-----------------------------------------------------------------------------
(* Python str operations on sequences of characters.                       *)
(*                                                                         *)
(* Intermediate results are bound by a quantifier or a set constructor     *)
(* ({e(x) : x \in {v}}), so that each is computed once.  A step that may   *)
(* fail (an IndexError caught by the caller) yields the set of its         *)
(* results: a singleton, or the empty set.                                 *)

Digits == {"0", "1", "2", "3", "4", "5", "6", "7", "8", "9"}

Whitespace == {" ", "\t", "\n", "\r"}

\* the element of a singleton
Only(S) == CHOOSE x \in S : TRUE

\* the set holding the least element of S: empty when S is
Least(S) == {x \in S : \A y \in S : x <= y}

\* s[i:j] in 1-based inclusive positions; empty when j < i
Slice(s, i, j) == IF j < i THEN <<>> ELSE SubSeq(s, i, j)

\* s.startswith(p, i-1)
MatchAt(s, p, i) ==
    /\ i >= 1
    /\ i + Len(p) - 1 <= Len(s)
    /\ \A k \in 1..Len(p) : s[i + k - 1] = p[k]

\* s.find(p, i-1) + 1 : the first position from i on where p occurs, 0 when none
NextAt(s, p, i) ==
    Only({IF first = {} THEN 0 ELSE Only(first) :
            first \in {Least({k \in i..(Len(s) - Len(p) + 1) : MatchAt(s, p, k)})}})

\* p in s
Contains(s, p) == \E i \in 1..(Len(s) - Len(p) + 1) : MatchAt(s, p, i)

\* s[i-1:].split(sep) : the parts between the occurrences of sep from i on
RECURSIVE SplitFrom(_, _, _)
SplitFrom(s, sep, i) ==
    Only({IF j = 0 THEN <<Slice(s, i, Len(s))>>
          ELSE <<Slice(s, i, j - 1)>> \o SplitFrom(s, sep, j + Len(sep)) :
            j \in {NextAt(s, sep, i)}})

\* s.split(sep)
Split(s, sep) == SplitFrom(s, sep, 1)

\* s.strip()
Strip(s) ==
    Only({IF ink = {} THEN <<>>
          ELSE SubSeq(s, Only(Least(ink)), Only({i \in ink : \A j \in ink : j <= i})) :
            ink \in {{i \in 1..Len(s) : s[i] \notin Whitespace}}})

\* s.replace(c, '') for every character c of drop
Remove(s, drop) == SelectSeq(s, LAMBDA c : c \notin drop)

\* the code points the scripts test for that are not ASCII
MoneyBag == "U+1F4B0"

Delta == "U+0394"

DeltaLower == "U+03B4"

LowerOf(c) ==
    LET upper == <<"A", "B", "C", "D", "E", "F", "G", "H", "I", "J", "K", "L", "M",
                   "N", "O", "P", "Q", "R", "S", "T", "U", "V", "W", "X", "Y", "Z">>
        lower == <<"a", "b", "c", "d", "e", "f", "g", "h", "i", "j", "k", "l", "m",
                   "n", "o", "p", "q", "r", "s", "t", "u", "v", "w", "x", "y", "z">>
    IN  IF \E i \in 1..26 : upper[i] = c
        THEN lower[CHOOSE i \in 1..26 : upper[i] = c]
        ELSE IF c = Delta THEN DeltaLower ELSE c

\* s.lower()
Lower(s) == [i \in 1..Len(s) |-> LowerOf(s[i])]

-----------------------------------------------------------------------------
(* Python float(str), the comparisons made on its result, and f"{x:.1f}"  *)
(*                                                                         *)
(* A parsed number keeps its sign, its significant decimal digits and its  *)
(* decimal exponent, and comparisons with the validators' limits are made  *)
(* in decimal arithmetic.  The rounding of a literal to the nearest binary *)
(* double is approximated by rounding it to 17 significant decimal digits. *)

DigitVal(c) ==
    CASE c = "0" -> 0 [] c = "1" -> 1 [] c = "2" -> 2 [] c = "3" -> 3
      [] c = "4" -> 4 [] c = "5" -> 5 [] c = "6" -> 6 [] c = "7" -> 7
      [] c = "8" -> 8 [] c = "9" -> 9

AllDigits(s) == \A i \in 1..Len(s) : s[i] \in Digits

\* the natural number written by the first n digits of s (n at most nine)
RECURSIVE DigitsToNat(_, _)
DigitsToNat(s, n) ==
    IF n = 0 THEN 0 ELSE 10 * DigitsToNat(s, n - 1) + DigitVal(s[n])

\* s without its leading zeros
DropLeadingZeros(s) ==
    Only({IF first = {} THEN <<>> ELSE SubSeq(s, Only(first), Len(s)) :
            first \in {Least({i \in 1..Len(s) : s[i] # "0"})}})

\* s without its trailing zeros
DropTrailingZeros(s) ==
    Only({IF last = {} THEN <<>> ELSE SubSeq(s, 1, Only(last)) :
            last \in {{i \in 1..Len(s) :
                         s[i] # "0" /\ \A j \in (i + 1)..Len(s) : s[j] = "0"}}})

\* the first n characters of s, padded with zeros when s is shorter
PadTo(s, n) == [i \in 1..n |-> IF i <= Len(s) THEN s[i] ELSE "0"]

\* the digit string plus one
IncDigits(s) ==
    Only({IF last = {} THEN <<"1">> \o [i \in 1..Len(s) |-> "0"]
          ELSE [i \in 1..Len(s) |->
                   IF i < Only(last) THEN s[i]
                   ELSE IF i > Only(last) THEN "0"
                   ELSE (<<"1", "2", "3", "4", "5", "6", "7", "8", "9">>)[DigitVal(s[i]) + 1]] :
            last \in {{i \in 1..Len(s) :
                         s[i] # "9" /\ \A j \in (i + 1)..Len(s) : s[j] = "9"}}})

\* the value the digits ip, a point, the digits fp and the exponent e write:
\* a finite value is 0.sig * 10^pos, sig free of leading and trailing zeros
DecimalValue(neg, ip, fp, e) ==
    LET Rounded(written) ==
            IF Len(written) <= 17 THEN written
            ELSE IF DigitVal(written[18]) >= 5
            THEN IncDigits(SubSeq(written, 1, 17))
            ELSE SubSeq(written, 1, 17)
        Value(written, kept) ==
            Only({IF sig = <<>> \/ pos < 0 - 323
                  THEN [ok |-> TRUE, cls |-> "zero", neg |-> neg, sig |-> <<>>, pos |-> 0]
                  ELSE IF pos > 309
                  THEN [ok |-> TRUE, cls |-> "inf", neg |-> neg, sig |-> <<>>, pos |-> 0]
                  ELSE [ok |-> TRUE, cls |-> "finite", neg |-> neg, sig |-> sig, pos |-> pos] :
                    sig \in {DropTrailingZeros(kept)},
                    pos \in {e - Len(fp) + Len(written)
                               + (IF Len(kept) = 18 THEN 1 ELSE 0)}})
    IN  Only({Only({Value(written, kept) : kept \in {Rounded(written)}}) :
                written \in {DropLeadingZeros(ip \o fp)}})

\* float(str): ok is FALSE where Python raises ValueError
Float(str) ==
    LET NaN == [ok |-> FALSE, cls |-> "nan", neg |-> FALSE, sig |-> <<>>, pos |-> 0]
        \* an exponent of more than four significant digits is far outside
        \* the range of a double and is clamped
        ExponentOf(ds) ==
            Only({IF Len(d) > 4 THEN 9999 ELSE DigitsToNat(d, Len(d)) :
                    d \in {DropLeadingZeros(ds)}})
        \* the mantissa with its point at dot (0: none) and the text after the "e"
        Parsed(neg, mant, dot, expo, hasE) ==
            Only({IF /\ AllDigits(ip) /\ AllDigits(fp)
                     /\ ip # <<>> \/ fp # <<>>
                     /\ hasE => (eDigits # <<>> /\ AllDigits(eDigits))
                  THEN DecimalValue(neg, ip, fp,
                           IF eNeg THEN 0 - ExponentOf(eDigits) ELSE ExponentOf(eDigits))
                  ELSE NaN :
                    ip \in {IF dot = 0 THEN mant ELSE Slice(mant, 1, dot - 1)},
                    fp \in {IF dot = 0 THEN <<>> ELSE Slice(mant, dot + 1, Len(mant))},
                    eDigits \in {IF expo # <<>> /\ expo[1] \in {"+", "-"}
                                 THEN Tail(expo) ELSE expo},
                    eNeg \in {expo # <<>> /\ expo[1] = "-"}})
        \* u: the text in lower case, without sign and underscores
        Scientific(neg, u, ePos) ==
            Only({Parsed(neg, mant, NextAt(mant, <<".">>, 1), expo, ePos # 0) :
                    mant \in {IF ePos = 0 THEN u ELSE Slice(u, 1, ePos - 1)},
                    expo \in {IF ePos = 0 THEN <<>> ELSE Slice(u, ePos + 1, Len(u))}})
        \* an underscore is accepted only between two digits
        UnderscoresOk(t) ==
            \A i \in 1..Len(t) :
                t[i] = "_" => /\ i > 1 /\ i < Len(t)
                              /\ t[i - 1] \in Digits /\ t[i + 1] \in Digits
        Unsigned(neg, t) ==
            IF t \in {<<"i", "n", "f">>, <<"i", "n", "f", "i", "n", "i", "t", "y">>}
            THEN [ok |-> TRUE, cls |-> "inf", neg |-> neg, sig |-> <<>>, pos |-> 0]
            ELSE IF t = <<"n", "a", "n">>
            THEN [ok |-> TRUE, cls |-> "nan", neg |-> neg, sig |-> <<>>, pos |-> 0]
            ELSE IF ~UnderscoresOk(t) THEN NaN
            ELSE Only({Only({Scientific(neg, u, ePos) : ePos \in {NextAt(u, <<"e">>, 1)}}) :
                         u \in {Remove(t, {"_"})}})
    IN  Only({Only({Unsigned(s0 # <<>> /\ s0[1] = "-", t) :
                      t \in {Lower(IF s0 # <<>> /\ s0[1] \in {"+", "-"}
                                   THEN Tail(s0) ELSE s0)}}) :
                s0 \in {Strip(str)}})

\* |f| in thousandths, rounded down, and whether nothing was rounded away;
\* magnitudes of 10^4 and more are all reported as 10^7 thousandths
Milli(f) ==
    IF f.cls = "zero" THEN [m |-> 0, exact |-> TRUE]
    ELSE IF f.pos + 3 > 7 THEN [m |-> 10000000, exact |-> FALSE]
    ELSE IF f.pos + 3 <= 0 THEN [m |-> 0, exact |-> FALSE]
    ELSE [m |-> DigitsToNat(PadTo(f.sig, f.pos + 3), f.pos + 3),
          exact |-> Len(f.sig) <= f.pos + 3]

\* f <= b / 1000, for a limit b of at most 10^6 thousandths in magnitude
FloatLE(f, b) ==
    CASE f.cls = "nan" -> FALSE
      [] f.cls = "inf" -> f.neg
      [] OTHER ->
          \E v \in {Milli(f)} :
              IF f.neg THEN b >= 0 \/ v.m >= 0 - b
              ELSE b >= 0 /\ (v.m < b \/ (v.m = b /\ v.exact))

\* f >= b / 1000
FloatGE(f, b) ==
    CASE f.cls = "nan" -> FALSE
      [] f.cls = "inf" -> ~f.neg
      [] OTHER ->
          \E v \in {Milli(f)} :
              IF f.neg THEN b <= 0 /\ (v.m < 0 - b \/ (v.m = 0 - b /\ v.exact))
              ELSE b <= 0 \/ v.m >= b

\* f > b / 1000
FloatGT(f, b) == f.cls # "nan" /\ ~FloatLE(f, b)

\* f"{x:.1f}" for x = f / 1e6, f positive
FormatMillions(f) ==
    LET r == f.pos - 6
        Digit(i) == IF i >= 1 /\ i <= Len(f.sig) THEN f.sig[i] ELSE "0"
        Shown(rounded) ==
            Only({(IF whole = <<>> THEN <<"0">> ELSE whole)
                     \o <<".", rounded[Len(rounded)]>> :
                    whole \in {DropLeadingZeros(SubSeq(rounded, 1, Len(rounded) - 1))}})
    IN  IF f.cls = "inf" THEN <<"i", "n", "f">>
        ELSE Only({Shown(rounded) :
                     rounded \in {IF DigitVal(Digit(r + 2)) >= 5
                                  THEN IncDigits((IF r <= 0 THEN <<"0">> ELSE PadTo(f.sig, r))
                                                    \o <<Digit(r + 1)>>)
                                  ELSE (IF r <= 0 THEN <<"0">> ELSE PadTo(f.sig, r))
                                           \o <<Digit(r + 1)>>}})

-----------------------------------------------------------------------------
(* The LLM client functions and their fallback chains *)

Models == {"o3", "o3-mini", "gpt-4"}

LLMFunctions ==
    {"generate_pattern_analysis", "intelligent_analysis", "analyze_with_o3",
     "ai_direction", "analyze_with_reasoning"}

\* texts an exception of the chat completion call may carry
ErrorTexts ==
    {<<"m", "o", "d", "e", "l", " ", "O", "3", " ", "n", "o", "t", " ", "f", "o", "u", "n", "d">>,
     <<"r", "a", "t", "e", " ", "l", "i", "m", "i", "t">>,
     <<"t", "i", "m", "e", "d", " ", "o", "u", "t">>}

\* what one model's endpoint answers: generated text, or an exception with a text
Answers == {[ok |-> TRUE, err |-> <<>>]} \cup {[ok |-> FALSE, err |-> e] : e \in ErrorTexts}

NoResult == [kind |-> "none", by |-> "none"]

\* "o3" in str(e).lower()
ErrorMentionsO3(err) == Contains(Lower(err), <<"o", "3">>)

\* The except clause that handles a failed call of `model` in function `fn`:
\* the next model to try, or the value the function ends with.
OnFailureAlt(fn, model, err) ==
    IF fn \in {"generate_pattern_analysis", "intelligent_analysis"}
    THEN CASE model = "o3" -> [next |-> "o3-mini", kind |-> "none"]
           [] model = "o3-mini" -> [next |-> "gpt-4", kind |-> "none"]
           [] OTHER -> [next |-> "done", kind |-> "error_string"]
    ELSE IF fn = "ai_direction"
    THEN CASE model = "o3" -> [next |-> "gpt-4", kind |-> "none"]
           [] OTHER -> [next |-> "done", kind |-> "raised"]
    ELSE IF fn = "analyze_with_reasoning"
    THEN [next |-> "done", kind |-> "fallback"]
    ELSE CASE model = "o3" /\ ErrorMentionsO3(err) -> [next |-> "gpt-4", kind |-> "none"]
           [] OTHER -> [next |-> "done", kind |-> "raised"]

OnFailureSkip(fn, model, err) ==
    IF fn \in {"generate_pattern_analysis", "intelligent_analysis"}
    THEN CASE model = "o3" -> [next |-> "gpt-4", kind |-> "none"]
           [] model = "gpt-4" -> [next |-> "o3-mini", kind |-> "none"]
           [] OTHER -> [next |-> "done", kind |-> "error_string"]
    ELSE IF fn = "ai_direction"
    THEN CASE model = "o3" -> [next |-> "gpt-4", kind |-> "none"]
           [] OTHER -> [next |-> "done", kind |-> "error_string"]
    ELSE IF fn = "analyze_with_reasoning"
    THEN [next |-> "done", kind |-> "fallback"]
    ELSE CASE model = "o3" /\ ErrorMentionsO3(err) -> [next |-> "gpt-4", kind |-> "none"]
           [] OTHER -> [next |-> "done", kind |-> "raised"]

OnFailure(fn, model, err) ==
    IF fn \in {"generate_pattern_analysis", "intelligent_analysis"}
    THEN CASE model = "o3" -> [next |-> "o3-mini", kind |-> "none"]
           [] model = "o3-mini" -> [next |-> "gpt-4", kind |-> "none"]
           [] OTHER -> [next |-> "done", kind |-> "error_string"]
    ELSE IF fn = "ai_direction"
    THEN CASE model = "o3" -> [next |-> "gpt-4", kind |-> "none"]
           [] OTHER -> [next |-> "done", kind |-> "error_string"]
    ELSE IF fn = "analyze_with_reasoning"
    THEN [next |-> "done", kind |-> "fallback"]
    ELSE CASE model = "o3" /\ ErrorMentionsO3(err) -> [next |-> "gpt-4", kind |-> "none"]
           [] OTHER -> [next |-> "done", kind |-> "raised"]

\* The function is entered: its try block calls o3 first.
LLMStart ==
    /\ llmPc = "idle"
    /\ \E fn \in LLMFunctions, out \in [Models -> Answers] :
          /\ llmFn' = fn
          /\ llmOut' = out
    /\ llmPc' = "o3"
    /\ llmCalls' = <<>>
    /\ llmResult' = NoResult
    /\ UNCHANGED notLLM

\* client.chat.completions.create(model=m, ...) and the return or except
\* clause that follows it
CallModel(m) ==
    /\ llmPc = m
    /\ llmCalls' = Append(llmCalls, m)
    /\ IF llmOut[m].ok
       THEN /\ llmResult' = [kind |-> "text", by |-> m]
            /\ llmPc' = "done"
       ELSE LET h == OnFailure(llmFn, m, llmOut[m].err)
            IN  /\ llmResult' = [kind |-> h.kind, by |-> "none"]
                /\ llmPc' = h.next
    /\ UNCHANGED <<llmFn, llmOut>>
    /\ UNCHANGED notLLM

CallO3 == CallModel("o3")

CallO3Mini == CallModel("o3-mini")

CallGPT4 == CallModel("gpt-4")

\* the caller has the result; the next call of an analysis function may begin
LLMReturn ==
    /\ llmPc = "done"
    /\ llmPc' = "idle"
    /\ UNCHANGED <<llmFn, llmOut, llmCalls, llmResult>>
    /\ UNCHANGED notLLM

InitLLM ==
    /\ llmFn = "generate_pattern_analysis"
    /\ llmOut = [m \in Models |-> [ok |-> TRUE, err |-> <<>>]]
    /\ llmPc = "idle"
    /\ llmCalls = <<>>
    /\ llmResult = NoResult

NextLLM == LLMStart \/ CallO3 \/ CallO3Mini \/ CallGPT4 \/ LLMReturn

-----------------------------------------------------------------------------
(* Claims about the LLM client *)

ThreeModelFns == {"generate_pattern_analysis", "intelligent_analysis"}

ThreeModelOrder == <<"o3", "o3-mini", "gpt-4">>

IsPrefix(s, t) == Len(s) <= Len(t) /\ \A i \in 1..Len(s) : s[i] = t[i]

\* the first model of the fixed order whose endpoint answers with text
FirstWorking ==
    CHOOSE i \in 1..3 :
        /\ llmOut[ThreeModelOrder[i]].ok
        /\ \A j \in 1..(i - 1) : ~llmOut[ThreeModelOrder[j]].ok

\* C1: generate_pattern_analysis and intelligent_analysis call the models in
\* the order o3, o3-mini, gpt-4; a model is called only after every earlier
\* one failed; the text of the first model that succeeds is returned; when
\* all three fail an error string is returned and nothing is raised.
Thm_C1 ==
    llmFn \in ThreeModelFns =>
        /\ IsPrefix(llmCalls, ThreeModelOrder)
        /\ \A i \in 1..Len(llmCalls) : \A j \in 1..(i - 1) : ~llmOut[llmCalls[j]].ok
        /\ llmResult.kind # "raised"
        /\ llmPc = "done" =>
              IF \E m \in Models : llmOut[m].ok
              THEN llmResult = [kind |-> "text", by |-> ThreeModelOrder[FirstWorking]]
              ELSE /\ llmResult.kind = "error_string"
                   /\ llmCalls = ThreeModelOrder

\* all three models were tried and failed, and the caller got the error string
Witness_C1 ==
    /\ llmFn \in ThreeModelFns
    /\ llmPc = "done"
    /\ llmCalls = ThreeModelOrder
    /\ llmResult.kind = "error_string"

\* C2 as stated: no exception from a model invocation escapes any LLM client
\* function, whichever model fails and whatever the error text is.
Orig_C2 == llmResult.kind # "raised"

\* C2 amended: generate_pattern_analysis, intelligent_analysis, ai_direction
\* and analyze_with_reasoning always end with text (generated, an error
\* string or the built-in fallback analysis); analyze_with_o3 raises exactly
\* when o3 fails and either the error text does not contain "o3" or the
\* GPT-4 fallback fails too, and returns generated text otherwise.
Thm_C2 ==
    llmPc = "done" =>
        IF llmFn = "analyze_with_o3"
        THEN /\ llmResult.kind \in {"text", "raised"}
             /\ llmResult.kind = "raised" <=>
                   /\ ~llmOut["o3"].ok
                   /\ \/ ~ErrorMentionsO3(llmOut["o3"].err)
                      \/ ~llmOut["gpt-4"].ok
        ELSE llmResult.kind \in {"text", "error_string", "fallback"}

\* analyze_with_o3 fell back to GPT-4, whose failure reached the caller
Witness_C2 ==
    /\ llmFn = "analyze_with_o3"
    /\ llmPc = "done"
    /\ llmCalls = <<"o3", "gpt-4">>
    /\ llmResult.kind = "raised"

-----------------------------------------------------------------------------
(* whatsapp_sender.py: the extraction of the template variables *)

_is_valid_price(s) ==
    \E f \in {Float(s)} : f.ok /\ FloatGE(f, 10000) /\ FloatLE(f, 1000000)

_is_valid_percentage(s) ==
    \E f \in {Float(s)} : f.ok /\ FloatGE(f, 0 - 50000) /\ FloatLE(f, 50000)

_is_valid_number(s) ==
    \E f \in {Float(s)} : f.ok /\ FloatGE(f, 0)

_is_valid_funding_rate(s) ==
    \E f \in {Float(s)} : f.ok /\ FloatGE(f, 0 - 1000) /\ FloatLE(f, 1000)

_is_valid_ratio(s) ==
    \E f \in {Float(s)} : f.ok /\ FloatGE(f, 100) /\ FloatLE(f, 10000)

\* the numeric slots of the template and the slots that hold text
NumericSlots == {"2", "3", "4", "5", "6", "7", "8"}

TextSlots == {"1", "9", "10", "11", "12"}

\* the values the slots start with; slot '1' is strftime('%H:%M') of the
\* moment of the call, five characters with a colon whatever the moment
Defaults ==
    [k \in NumericSlots \cup TextSlots |->
        CASE k = "1" -> <<"1", "4", ":", "0", "5">>
          [] k = "2" -> <<"0", ".", "0", "0">>
          [] k = "3" -> <<"0", ".", "0">>
          [] k = "4" -> <<"0">>
          [] k = "5" -> <<"0", ".", "0">>
          [] k = "6" -> <<"0", ".", "0", "0", "0">>
          [] k = "7" -> <<"0", ".", "0", "0", "0">>
          [] k = "8" -> <<"0", ".", "0", "0">>
          [] k = "9" -> <<"W", "A", "I", "T">>
          [] k = "10" -> <<"N", "o", " ", "c", "l", "e", "a", "r", " ", "s", "e", "t", "u", "p">>
          [] k = "11" -> <<"M", "e", "d", "i", "u", "m", " ", "r", "i", "s", "k">>
          [] k = "12" -> <<"M", "o", "n", "i", "t", "o", "r", " ", "l", "e", "v", "e", "l", "s">>]

\* the validator the extraction loops apply to the value of slot k
Validator(k, s) ==
    CASE k = "2" -> _is_valid_price(s)
      [] k \in {"3", "5"} -> _is_valid_percentage(s)
      [] k = "4" -> _is_valid_number(s)
      [] k \in {"6", "7"} -> _is_valid_funding_rate(s)
      [] k = "8" -> _is_valid_ratio(s)

\* of the candidates for slot k, those the slot's validator accepts
Keep(candidates, k) == {v \in candidates : Validator(k, v)}

\* the last position of the run of digits beginning at i (i - 1 when empty)
DigitRunEnd(s, i) ==
    Only({IF stop = {} THEN Len(s) ELSE Only(stop) - 1 :
            stop \in {Least({k \in i..Len(s) : s[k] \notin Digits})}})

\* where [0-9]+\.?[0-9]* ends when matched from position i; 0 when it does not match
NumberEnd(s, i) ==
    IF i > Len(s) \/ s[i] \notin Digits THEN 0
    ELSE Only({IF a < Len(s) /\ s[a + 1] = "." THEN DigitRunEnd(s, a + 2) ELSE a :
                 a \in {DigitRunEnd(s, i)}})

\* re.findall(r'\$([0-9]+\.?[0-9]*)', line)[:1]
FindDollarNumber(line) ==
    {Slice(line, i + 1, NumberEnd(line, i + 1)) :
        i \in Least({k \in 1..Len(line) : line[k] = "$" /\ NumberEnd(line, k + 1) # 0})}

\* re.findall(r'([+-]?[0-9]+\.?[0-9]*)%', line)[:1]
FindPercentNumber(line) ==
    LET \* where the group ends when it begins at i, after its optional sign
        ends(i) == NumberEnd(line, IF line[i] \in {"+", "-"} THEN i + 1 ELSE i)
    IN  {Slice(line, i, ends(i)) :
            i \in Least({k \in 1..Len(line) :
                            \E e \in {ends(k)} :
                                e # 0 /\ e < Len(line) /\ line[e + 1] = "%"})}

\* line.split(sep)[1], which raises IndexError (caught) when sep is absent
AfterFirst(line, sep) ==
    {parts[2] : parts \in {p \in {Split(line, sep)} : Len(p) >= 2}}

\* text.split()[0], which raises IndexError (caught) when text is blank
FirstWord(text) ==
    LET \* the word that begins at start
        WordAt(start) ==
            Only({Slice(text, start, IF stop = {} THEN Len(text) ELSE Only(stop) - 1) :
                    stop \in {Least({i \in start..Len(text) : text[i] \in Whitespace})}})
    IN  {WordAt(start) : start \in Least({i \in 1..Len(text) : text[i] \notin Whitespace})}

\* price patterns 1 and 2: line.split("$")[1].split()[0] without ',', '(', ')'
PriceAfterDollar(line) ==
    {Remove(word, {",", "(", ")"}) :
        word \in UNION {FirstWord(rest) : rest \in AfterFirst(line, <<"$">>)}}

PriceOfLine(line) ==
    LET p1 == IF Contains(line, <<"P", "r", "i", "c", "e", ":">>) /\ Contains(line, <<"$">>)
              THEN Keep(PriceAfterDollar(line), "2") ELSE {}
        p2 == IF Contains(line, <<MoneyBag>>) /\ Contains(line, <<"$">>)
              THEN Keep(PriceAfterDollar(line), "2") ELSE {}
        p3 == IF Contains(line, <<"$">>)
              THEN {v \in Keep(FindDollarNumber(line), "2") :
                       \E f \in {Float(v)} : FloatGT(f, 10000)}
              ELSE {}
    IN  IF p1 # {} THEN p1 ELSE IF p2 # {} THEN p2 ELSE p3

\* line.split("(")[1].split("%")[0].strip()
ParenPercent(line) ==
    {Strip(Split(rest, <<"%">>)[1]) : rest \in AfterFirst(line, <<"(">>)}

\* line.split(":")[1].strip() without the characters of drop
AfterColon(line, drop) ==
    {Remove(Strip(rest), drop) : rest \in AfterFirst(line, <<":">>)}

ChangeOfLine(line, low) ==
    LET p1 == IF /\ Contains(line, <<"2", "4", "h">>)
                 /\ Contains(line, <<"%">>)
                 /\ Contains(line, <<"(">>)
              THEN Keep(ParenPercent(line), "3") ELSE {}
        p2 == IF Contains(line, <<"p", "r", "i", "c", "e", "_", "2", "4", "h", "_", "c", "h", "a", "n", "g", "e">>) /\ Contains(line, <<":">>)
              THEN Keep(AfterColon(line, {"%"}), "3") ELSE {}
        p3 == IF Contains(low, <<"2", "4", "h">>)
              THEN Keep(FindPercentNumber(line), "3") ELSE {}
    IN  IF p1 # {} THEN p1 ELSE IF p2 # {} THEN p2 ELSE p3

\* OI pattern 1: line.split("$")[1].split("M")[0].strip() without ','
\* OI pattern 2: float(oi_raw) / 1e6 > 0 (the quotient underflows to 0.0
\* below 1e-323), stored as f"{oi_millions:.1f}"
OIOfLine(line, low) ==
    LET p1 == IF /\ Contains(line, <<"O", "I">>)
                 /\ Contains(line, <<"$">>)
                 /\ Contains(line, <<"M">>)
              THEN Keep({Remove(Strip(Split(rest, <<"M">>)[1]), {","}) :
                            rest \in AfterFirst(line, <<"$">>)}, "4")
              ELSE {}
        p2 == IF Contains(low, <<"o", "i", "_", "u", "s", "d">>)
              THEN {FormatMillions(f) :
                       f \in {g \in {Float(oi_raw) : oi_raw \in AfterColon(line, {","})} :
                                 /\ g.ok
                                 /\ FloatGT(g, 0)
                                 /\ g.cls = "inf" \/ g.pos - 6 >= 0 - 323}}
              ELSE {}
    IN  IF p1 # {} THEN p1 ELSE p2

OIChangeOfLine(line) ==
    IF Contains(line, <<"O", "I">>) /\ Contains(line, <<"(">>) /\ Contains(line, <<"%">>)
    THEN Keep(ParenPercent(line), "5") ELSE {}

FundingOfLine(line, low) ==
    IF ~(Contains(low, <<"f", "u", "n", "d", "i", "n", "g">>) /\ Contains(line, <<"%">>)) THEN {}
    ELSE IF Contains(line, <<"F", "u", "n", "d", "i", "n", "g", ":">>)
    THEN Keep({Remove(Strip(Split(rest, <<"%">>)[1]), {"("}) :
                  rest \in AfterFirst(line, <<":">>)}, "6")
    ELSE IF Contains(low, <<"f", "u", "n", "d", "i", "n", "g", "_", "p", "c", "t">>)
    THEN Keep(AfterColon(line, {","}), "6")
    ELSE {}

FundingChangeOfLine(line, low) ==
    IF ~Contains(low, <<"f", "u", "n", "d", "i", "n", "g">>) THEN {}
    ELSE IF \/ Contains(line, <<"6", "h", " ", Delta>>)
            \/ Contains(low, <<"6", "h", " ", DeltaLower>>)
    THEN Keep({Remove(Strip(Split(change_part, <<"%">>)[1]), {"(", ")"}) :
                  change_part \in IF Contains(line, <<Delta>>)
                                  THEN AfterFirst(line, <<Delta>>)
                                  ELSE AfterFirst(line, <<DeltaLower>>)}, "7")
    ELSE IF Contains(low, <<"f", "u", "n", "d", "i", "n", "g", "_", "6", "h", "_", "c", "h", "a", "n", "g", "e">>)
    THEN Keep(AfterColon(line, {","}), "7")
    ELSE {}

\* text.split()[0].strip() without '(' and ')', for each text of rests
FirstWordBare(rests) ==
    {Remove(Strip(word), {"(", ")"}) : word \in UNION {FirstWord(rest) : rest \in rests}}

RatioOfLine(line, low) ==
    LET p1 == IF Contains(line, <<"L", "/", "S", ":">>)
              THEN Keep(FirstWordBare(AfterFirst(line, <<"L", "/", "S", ":">>)), "8") ELSE {}
        p2 == IF Contains(low, <<"l", "s", "_", "r", "a", "t", "i", "o">>) /\ Contains(line, <<":">>)
              THEN Keep(AfterColon(line, {","}), "8") ELSE {}
        p3 == IF Contains(low, <<"l", "o", "n", "g", "/", "s", "h", "o", "r", "t">>) /\ Contains(line, <<":">>)
              THEN Keep(FirstWordBare(AfterFirst(line, <<":">>)), "8") ELSE {}
    IN  IF p1 # {} THEN p1 ELSE IF p2 # {} THEN p2 ELSE p3

\* the extraction loops of _create_whatsapp_summary over analysis.split('\n'):
\* a slot gets the value found on the first line on which one of its
\* patterns stores a value, and keeps its default when there is no such line
ExtractNumericSlots(analysis) ==
    LET OfLine(k, line, low) ==
            CASE k = "2" -> PriceOfLine(line)
              [] k = "3" -> ChangeOfLine(line, low)
              [] k = "4" -> OIOfLine(line, low)
              [] k = "5" -> OIChangeOfLine(line)
              [] k = "6" -> FundingOfLine(line, low)
              [] k = "7" -> FundingChangeOfLine(line, low)
              [] k = "8" -> RatioOfLine(line, low)
        \* the pairs <<i, v>>: on line i the patterns of slot k store v
        Stored(k, lines) ==
            UNION {UNION {{<<i, v>> : v \in OfLine(k, line, low)} :
                            line \in {lines[i]}, low \in {Lower(lines[i])}} :
                     i \in 1..Len(lines)}
        First(k, hits) ==
            IF hits = {} THEN Defaults[k]
            ELSE Only({h[2] : h \in {g \in hits : \A o \in hits : g[1] <= o[1]}})
    IN  Only({[k \in NumericSlots |-> Only({First(k, hits) : hits \in {Stored(k, lines)}})] :
                lines \in {Split(analysis, <<"\n">>)}})

\* clean_value[:20] of the numeric fields
NumericFieldLimit == 20

_sanitize_template_vars(template_vars) ==
    [k \in DOMAIN template_vars |->
        LET limit == IF k \in {"10", "11", "12"} THEN 200 ELSE NumericFieldLimit
            Limited(spaced) ==
                IF Len(spaced) > limit THEN SubSeq(spaced, 1, limit) ELSE spaced
            Spaced(stripped) ==
                [i \in 1..Len(stripped) |->
                    IF stripped[i] \in {"\n", "\r", "\t"} THEN " " ELSE stripped[i]]
            Filled(clean_value) ==
                IF clean_value = <<>> \/ \A i \in 1..Len(clean_value) : clean_value[i] = " "
                THEN Defaults[k] ELSE clean_value
        IN  Only({Filled(Limited(Spaced(stripped))) :
                    stripped \in {Strip(template_vars[k])}})]

\* f < b / 1000
FloatLT(f, b) == f.cls # "nan" /\ ~FloatGE(f, b)

\* abs(f) > b / 1000
FloatAbsGT(f, b) == FloatGT(f, b) \/ FloatLT(f, 0 - b)

\* the signal, setup, risk and action slots of _create_whatsapp_summary,
\* computed from the lines of the analysis and from the numeric slots as
\* the extraction loops left them (numeric); a slot of numeric holds its
\* default or a value float() accepted, so that float(template_vars['2'])
\* of the action plan does not raise
ExtractTextSlots(analysis, numeric) ==
    Only({
    LET \* the value of the first line of hits, a set of pairs <<line, value>>
        FirstOf(hits, default) ==
            IF hits = {} THEN default
            ELSE Only({h[2] : h \in {g \in hits : \A o \in hits : g[1] <= o[1]}})
        \* the first of LONG, SHORT, WAIT that text.upper() contains
        ValidSignalIn(text) ==
            Only({IF Contains(low, <<"l", "o", "n", "g">>) THEN {<<"L", "O", "N", "G">>}
                  ELSE IF Contains(low, <<"s", "h", "o", "r", "t">>) THEN {<<"S", "H", "O", "R", "T">>}
                  ELSE IF Contains(low, <<"w", "a", "i", "t">>) THEN {<<"W", "A", "I", "T">>} ELSE {} :
                    low \in {Lower(text)}})
        \* pattern 2 is tried after pattern 1 on the same line and overwrites it
        SignalOfLine(line) ==
            LET p1 == UNION {ValidSignalIn(rest) : rest \in AfterFirst(line, <<"S", "I", "G", "N", "A", "L", ":">>)}
                p2 == IF Contains(Lower(line), <<"a", "u", "t", "o", " ", "s", "i", "g", "n", "a", "l">>) /\ Contains(line, <<":">>)
                      THEN UNION {ValidSignalIn(rest) : rest \in AfterFirst(line, <<":">>)}
                      ELSE {}
            IN  IF p2 # {} THEN p2 ELSE p1
        signal ==
            FirstOf(UNION {{<<i, v>> : v \in SignalOfLine(lines[i])} : i \in 1..Len(lines)},
                    Defaults["9"])
        InsightOfLine(low) ==
            IF Contains(low, <<"s", "u", "p", "p", "o", "r", "t">>) THEN {<<"S", "u", "p", "p", "o", "r", "t", " ", "t", "e", "s", "t">>}
            ELSE IF Contains(low, <<"r", "e", "s", "i", "s", "t", "a", "n", "c", "e">>) THEN {<<"R", "e", "s", "i", "s", "t", "a", "n", "c", "e", " ", "a", "r", "e", "a">>}
            ELSE IF Contains(low, <<"b", "r", "e", "a", "k", "o", "u", "t">>) THEN {<<"B", "r", "e", "a", "k", "o", "u", "t", " ", "s", "e", "t", "u", "p">>}
            ELSE IF Contains(low, <<"b", "o", "u", "n", "c", "e">>) THEN {<<"B", "o", "u", "n", "c", "e", " ", "p", "a", "t", "t", "e", "r", "n">>}
            ELSE IF Contains(low, <<"r", "e", "j", "e", "c", "t", "i", "o", "n">>) THEN {<<"R", "e", "j", "e", "c", "t", "i", "o", "n", " ", "z", "o", "n", "e">>}
            ELSE {}
        technical_insights ==
            UNION {{<<i, v>> : v \in InsightOfLine(Lower(lines[i]))} : i \in 1..Len(lines)}
        \* ' + '.join(technical_insights[:2])
        Insights(found) ==
            Only({IF later = {} THEN FirstOf(found, <<>>)
                  ELSE FirstOf(found, <<>>) \o <<" ", "+", " ">> \o FirstOf(later, <<>>) :
                    later \in {{h \in found : \E g \in found : g[1] < h[1]}}})
        \* ' '.join(text.replace('\r', '').split()), cut to 77 characters and
        \* '...' when longer than 80
        CleanSetup(text) ==
            LET kept(t) ==
                    SelectSeq([i \in 1..Len(t) |-> i],
                              LAMBDA i : \/ t[i] \notin Whitespace
                                         \/ /\ i > 1
                                            /\ t[i - 1] \notin Whitespace
                                            /\ \E j \in (i + 1)..Len(t) : t[j] \notin Whitespace)
                joined(t, at) ==
                    [j \in 1..Len(at) |-> IF t[at[j]] \in Whitespace THEN " " ELSE t[at[j]]]
                short(c) == IF Len(c) > 80 THEN SubSeq(c, 1, 77) \o <<".", ".", ".">> ELSE c
            IN  Only({short(joined(t, kept(t))) : t \in {Remove(text, {"\r"})}})
        SetupOfLine(line) ==
            {CleanSetup(setup_match) :
                setup_match \in {m \in {Strip(rest) : rest \in AfterFirst(line, <<"S", "E", "T", "U", "P", ":">>)} :
                                    Len(m) > 5}}
        setups == UNION {{<<i, v>> : v \in SetupOfLine(lines[i])} : i \in 1..Len(lines)}
        MarketCondition(price_change, funding_rate) ==
            IF ~price_change.ok \/ ~funding_rate.ok THEN Defaults["10"]
            ELSE IF FloatGT(price_change, 2000) /\ FloatGT(funding_rate, 50)
            THEN <<"S", "t", "r", "o", "n", "g", " ", "b", "u", "l", "l", "i", "s", "h", " ", "m", "o", "m", "e", "n", "t", "u", "m">>
            ELSE IF FloatLT(price_change, 0 - 2000) /\ FloatLT(funding_rate, 0 - 50)
            THEN <<"B", "e", "a", "r", "i", "s", "h", " ", "p", "r", "e", "s", "s", "u", "r", "e", " ", "b", "u", "i", "l", "d", "i", "n", "g">>
            ELSE IF FloatLT(price_change, 1000) /\ FloatGT(price_change, 0 - 1000)
            THEN <<"C", "o", "n", "s", "o", "l", "i", "d", "a", "t", "i", "o", "n", " ", "p", "h", "a", "s", "e">>
            ELSE <<"M", "i", "x", "e", "d", " ", "s", "i", "g", "n", "a", "l", "s", " ", "p", "r", "e", "s", "e", "n", "t">>
        setup ==
            IF setups # {} THEN FirstOf(setups, <<>>)
            ELSE IF technical_insights # {} THEN Insights(technical_insights)
            ELSE MarketCondition(Float(numeric["3"]), Float(numeric["6"]))
        Score(f, high, raised) ==
            IF FloatAbsGT(f, high) THEN 2 ELSE IF FloatAbsGT(f, raised) THEN 1 ELSE 0
        Risk(price_change, oi_change, funding_rate) ==
            IF ~price_change.ok \/ ~oi_change.ok \/ ~funding_rate.ok THEN <<"M", "e", "d", "i", "u", "m", " ", "r", "i", "s", "k">>
            ELSE Only({IF risk_score >= 4 THEN <<"H", "i", "g", "h", " ", "r", "i", "s", "k">>
                       ELSE IF risk_score >= 2 THEN <<"M", "e", "d", "i", "u", "m", " ", "r", "i", "s", "k">>
                       ELSE <<"L", "o", "w", " ", "r", "i", "s", "k">> :
                         risk_score \in {Score(price_change, 5000, 2000)
                                           + Score(oi_change, 10000, 5000)
                                           + Score(funding_rate, 100, 50)}})
        \* line.split(label)[1].strip()[:30] when longer than two characters
        LevelOfLine(line, label, word) ==
            {word \o level :
                level \in {m \in {Slice(s, 1, IF Len(s) > 30 THEN 30 ELSE Len(s)) :
                                    s \in {Strip(rest) : rest \in AfterFirst(line, label)}} :
                             Len(m) > 2}}
        ActionOfLine(line) ==
            IF Contains(line, <<"E", "N", "T", "R", "Y", ":">>) THEN LevelOfLine(line, <<"E", "N", "T", "R", "Y", ":">>, <<"E", "n", "t", "r", "y", " ">>)
            ELSE IF Contains(line, <<"T", "A", "R", "G", "E", "T", ":">>) THEN LevelOfLine(line, <<"T", "A", "R", "G", "E", "T", ":">>, <<"T", "a", "r", "g", "e", "t", " ">>)
            ELSE {}
        actions == UNION {{<<i, v>> : v \in ActionOfLine(lines[i])} : i \in 1..Len(lines)}
        RECURSIVE NatStr(_)
        NatStr(n) ==
            IF n < 10 THEN <<(<<"0", "1", "2", "3", "4", "5", "6", "7", "8", "9">>)[n + 1]>>
            ELSE NatStr(n \div 10)
                    \o <<(<<"0", "1", "2", "3", "4", "5", "6", "7", "8", "9">>)[(n % 10) + 1]>>
        \* f"{price * percent / 100:.1f}" for a price given in thousandths
        Level(price, percent) ==
            Only({NatStr(tenths \div 10) \o <<".">> \o NatStr(tenths % 10) :
                    tenths \in {(price * percent + 5000) \div 10000}})
        price == IF numeric["2"] = Defaults["2"] THEN 100000 ELSE Milli(Float(numeric["2"])).m
        action ==
            IF actions # {} THEN FirstOf(actions, <<>>)
            ELSE IF signal = <<"L", "O", "N", "G">> THEN <<"W", "a", "t", "c", "h", " ">> \o Level(price, 98) \o <<" ", "s", "u", "p", "p", "o", "r", "t">>
            ELSE IF signal = <<"S", "H", "O", "R", "T">> THEN <<"W", "a", "t", "c", "h", " ">> \o Level(price, 102) \o <<" ", "r", "e", "s", "i", "s", "t", "a", "n", "c", "e">>
            ELSE <<"M", "o", "n", "i", "t", "o", "r", " ", "k", "e", "y", " ", "l", "e", "v", "e", "l", "s">>
        \* market_drivers[0].title()
        DriverOfLine(low) ==
            IF Contains(low, <<"b", "u", "l", "l", "i", "s", "h">>) THEN {<<"B", "u", "l", "l", "i", "s", "h", " ", "S", "e", "n", "t", "i", "m", "e", "n", "t">>}
            ELSE IF Contains(low, <<"b", "e", "a", "r", "i", "s", "h">>) THEN {<<"B", "e", "a", "r", "i", "s", "h", " ", "P", "r", "e", "s", "s", "u", "r", "e">>}
            ELSE IF Contains(low, <<"v", "o", "l", "a", "t", "i", "l", "e">>) THEN {<<"H", "i", "g", "h", " ", "V", "o", "l", "a", "t", "i", "l", "i", "t", "y">>}
            ELSE IF Contains(low, <<"n", "e", "u", "t", "r", "a", "l">>) THEN {<<"S", "i", "d", "e", "w", "a", "y", "s", " ", "A", "c", "t", "i", "o", "n">>}
            ELSE {}
        market_drivers ==
            UNION {{<<i, v>> : v \in DriverOfLine(Lower(lines[i]))} : i \in 1..Len(lines)}
        Context(basic) ==
            IF basic \in {<<"N", "o", " ", "c", "l", "e", "a", "r", " ", "s", "e", "t", "u", "p">>, <<"M", "i", "x", "e", "d", " ", "s", "i", "g", "n", "a", "l", "s", " ", "p", "r", "e", "s", "e", "n", "t">>} /\ market_drivers # {}
            THEN FirstOf(market_drivers, <<>>) ELSE basic
    IN  [k \in TextSlots |->
            CASE k = "1" -> Defaults["1"]
              [] k = "9" -> signal
              [] k = "10" -> Context(setup)
              [] k = "11" -> Risk(Float(numeric["3"]), Float(numeric["5"]), Float(numeric["6"]))
              [] k = "12" -> action] :
        lines \in {Split(analysis, <<"\n">>)}})

\* _validate_template_vars(template_vars): every slot is present and has
\* the format of its kind, no value holds a word of a link, and the text
\* slots are at most 100 characters long
_validate_template_vars(template_vars) ==
    LET required_vars == NumericSlots \cup TextSlots
        HasAny(x, words) == \E w \in words : Contains(x, w)
        UrlLike(x) == HasAny(x, {<<"h", "t", "t", "p">>, <<"w", "w", "w">>, <<".", "c", "o", "m">>, <<".", "n", "e", "t">>})
        validations(k, x) ==
            CASE k = "1" -> Len(x) = 5 /\ Contains(x, <<":">>)
              [] k = "2" -> _is_valid_price(Remove(x, {"$"}))
              [] k \in {"3", "5"} -> _is_valid_percentage(Remove(x, {"%"}))
              [] k = "4" -> _is_valid_number(x)
              [] k \in {"6", "7"} -> _is_valid_funding_rate(Remove(x, {"%"}))
              [] k = "8" -> _is_valid_ratio(x)
              [] k = "9" -> Lower(x) \in {<<"l", "o", "n", "g">>, <<"s", "h", "o", "r", "t">>, <<"w", "a", "i", "t">>}
              [] k = "10" -> Len(x) >= 3 /\ Len(x) <= 100 /\ ~UrlLike(x)
              [] k = "11" -> \/ Lower(x) \in {<<"l", "o", "w", " ", "r", "i", "s", "k">>, <<"m", "e", "d", "i", "u", "m", " ", "r", "i", "s", "k">>, <<"h", "i", "g", "h", " ", "r", "i", "s", "k">>}
                             \/ (Len(x) >= 3 /\ Len(x) <= 50)
              [] k = "12" -> Len(x) >= 3 /\ Len(x) <= 80 /\ ~UrlLike(x)
    IN  /\ required_vars \subseteq DOMAIN template_vars
        /\ \A k \in required_vars : validations(k, template_vars[k])
        /\ \A k \in DOMAIN template_vars :
              /\ ~HasAny(Lower(template_vars[k]), {<<"h", "t", "t", "p">>, <<"w", "w", "w">>, <<"c", "l", "i", "c", "k">>, <<"l", "i", "n", "k">>, <<"u", "r", "l">>})
              /\ k \in {"10", "11", "12"} => Len(template_vars[k]) <= 100

\* lines an analysis text may hold: well-formed ones, values outside the
\* validators' ranges, and numbers written with more than twenty characters
AnalysisLines ==
    {<<"P", "r", "i", "c", "e", ":", " ", "$", "1", "2", "5", ".", "4", "5", " ", "(", "+", "3", ".", "2", "%", " ", "2", "4", "h", ")">>,
     <<"O", "I", ":", " ", "$", "1", "7", "5", "M", " ", "(", "+", "2", ".", "1", "%", ")">>,
     <<"F", "u", "n", "d", "i", "n", "g", ":", " ", "0", ".", "0", "6", "7", "%", " ", "(", "6", "h", " ">> \o <<Delta>> \o <<" ", "+", "0", ".", "0", "1", "5", "%", ")">>,
     <<"L", "/", "S", ":", " ", "2", ".", "8", "9">>,
     <<"o", "i", "_", "u", "s", "d", ":", " ", "1", "7", "5", "0", "0", "0", "0", "0", "0">>,
     <<"S", "O", "L", " ", "2", "4", "h", " ", "c", "h", "a", "n", "g", "e", " ", "-", "4", ".", "5", "%">>,
     <<"f", "u", "n", "d", "i", "n", "g", "_", "6", "h", "_", "c", "h", "a", "n", "g", "e", ":", " ", "+", "0", ".", "0", "1", "2">>,
     <<"P", "r", "i", "c", "e", ":", " ", "$", "5", "0", "0", "0", " ", "(", "+", "8", "0", "%", " ", "2", "4", "h", ")">>,
     <<"L", "/", "S", ":", " ", "0", ".", "0", "5">>,
     <<"P", "r", "i", "c", "e", ":", " ", "$", "9", "9", "9", "9", "e", "-", "0", "0", "0", "0", "0", "0", "0", "0", "0", "0", "0", "0", "0", "0", "1">>,
     <<"F", "u", "n", "d", "i", "n", "g", ":", " ", "5", "e", "-", "0", "0", "0", "0", "0", "0", "0", "0", "0", "0", "0", "0", "0", "0", "0", "0", "0", "1", "%">>,
     <<"O", "I", ":", " ", "$", "0", ".", "0", "0", "0", "0", "0", "0", "0", "0", "0", "0", "0", "0", "0", "0", "0", "0", "0", "e", "1", "M">>,
     <<"S", "I", "G", "N", "A", "L", ":", " ", "L", "O", "N", "G">>}

\* the most lines an analysis text holds
MaxLines == 2

\* '\n'.join(lines)
RECURSIVE JoinLines(_)
JoinLines(lines) ==
    IF lines = <<>> THEN <<>>
    ELSE IF Len(lines) = 1 THEN lines[1]
    ELSE lines[1] \o <<"\n">> \o JoinLines(Tail(lines))

AnalysisTexts ==
    {JoinLines(ls) : ls \in UNION {[1..n -> AnalysisLines] : n \in 0..MaxLines}}

\* _create_whatsapp_summary(analysis, ...): the extraction loops of the
\* numeric slots, those of the text slots, then _sanitize_template_vars on
\* their result
CreateWhatsAppSummary ==
    /\ tplPc = "idle"
    /\ \E analysis \in AnalysisTexts :
          /\ tplAnalysis' = analysis
          /\ \E numeric \in {ExtractNumericSlots(analysis)} :
                \E text \in {ExtractTextSlots(analysis, numeric)} :
                    tplExtracted' = [k \in NumericSlots \cup TextSlots |->
                                        IF k \in NumericSlots THEN numeric[k] ELSE text[k]]
          /\ tplVars' = _sanitize_template_vars(tplExtracted')
    /\ tplPc' = "done"
    /\ UNCHANGED notTpl

\* the message and the variables are back with the caller; the locals of
\* the call are gone
SummaryReturn ==
    /\ tplPc = "done"
    /\ tplPc' = "idle"
    /\ tplAnalysis' = <<>>
    /\ tplExtracted' = Defaults
    /\ tplVars' = Defaults
    /\ UNCHANGED notTpl

NextTpl == CreateWhatsAppSummary \/ SummaryReturn

InitTpl ==
    /\ tplPc = "idle"
    /\ tplAnalysis = <<>>
    /\ tplExtracted = Defaults
    /\ tplVars = Defaults

-----------------------------------------------------------------------------
(* Claims about the template variables *)

\* C3: after _create_whatsapp_summary every numeric slot '2'..'8' holds its
\* default or a value its validator accepts; a value outside the validator's
\* range is never kept.
Orig_C3 ==
    tplPc = "done" =>
        \A k \in NumericSlots : tplVars[k] = Defaults[k] \/ Validator(k, tplVars[k])


\* C13: the template variables _create_whatsapp_summary returns pass
\* _validate_template_vars, whichever metric lines the analysis holds and
\* also when slots keep their defaults.
Orig_C13 == tplPc = "done" => _validate_template_vars(tplVars)
-----------------------------------------------------------------------------
(* The market-data fetch wrappers and the scripts that call them *)

\* what the HTTP layer does with one request
Responses == {"ok", "http_401", "http_429", "http_500", "network_error", "bad_json"}

NoCall == [fn |-> "none", resp |-> "none", kind |-> "no_call", exc |-> "none"]

\* sol_hybrid_analysis.py: everything but a 200 with a JSON body ends in `return None`
_api_get(resp) ==
    IF resp = "ok"
    THEN [kind |-> "data", exc |-> "none"]
    ELSE [kind |-> "returned_none", exc |-> "none"]

\* a wrapper that swallows the failure (not what the code does)
_coinalyze_get_swallow(resp) ==
    IF resp = "ok"
    THEN [kind |-> "data", exc |-> "none"]
    ELSE [kind |-> "returned_none", exc |-> "none"]

\* advanced_crypto_agent.py: every failure is re-raised as a ValueError
_coinalyze_get(resp) ==
    IF resp = "ok"
    THEN [kind |-> "data", exc |-> "none"]
    ELSE [kind |-> "raise", exc |-> "ValueError"]

\* coinalyze_solana_agent.py: nothing is caught but the 401, which is re-raised
_get(resp, api_key) ==
    IF ~api_key
    THEN [kind |-> "raise", exc |-> "RuntimeError"]
    ELSE CASE resp = "ok" -> [kind |-> "data", exc |-> "none"]
           [] resp = "http_401" -> [kind |-> "raise", exc |-> "RuntimeError"]
           [] resp \in {"http_429", "http_500"} -> [kind |-> "raise", exc |-> "HTTPError"]
           [] resp = "network_error" -> [kind |-> "raise", exc |-> "RequestException"]
           [] OTHER -> [kind |-> "raise", exc |-> "JSONDecodeError"]

\* the lists decide_coinalyze_metrics_needed can hand to fetch_intelligent_data:
\* its two built-in lists and a list chosen by the model
MetricLists ==
    {<<"current_prices", "open_interest", "funding_rates", "liquidations",
       "long_short_ratios", "funding_history", "oi_history">>,
     <<"current_prices", "open_interest", "funding_rates", "liquidations",
       "long_short_ratios", "funding_history">>,
     <<"funding_rates", "sentiment", "current_prices">>}

\* the wrapper calls made for the metrics from position i on: each fetch_*
\* method makes its calls inside one try whose except returns {}
RECURSIVE MetricSites(_, _)
MetricSites(metrics, i) ==
    IF i > Len(metrics) THEN <<>>
    ELSE (CASE metrics[i] = "current_prices" ->
                 <<[fn |-> "fetch_ohlcv_data", guarded |-> TRUE]>>
            [] metrics[i] = "open_interest" ->
                 <<[fn |-> "fetch_open_interest", guarded |-> TRUE],
                   [fn |-> "fetch_open_interest", guarded |-> TRUE]>>
            [] metrics[i] = "funding_rates" ->
                 <<[fn |-> "fetch_funding_rates", guarded |-> TRUE],
                   [fn |-> "fetch_funding_rates", guarded |-> TRUE]>>
            [] metrics[i] = "liquidations" ->
                 <<[fn |-> "fetch_liquidations", guarded |-> TRUE]>>
            [] metrics[i] = "long_short_ratios" ->
                 <<[fn |-> "fetch_long_short_ratios", guarded |-> TRUE]>>
            [] metrics[i] = "funding_history" ->
                 <<[fn |-> "fetch_funding_history", guarded |-> TRUE]>>
            [] metrics[i] = "oi_history" ->
                 <<[fn |-> "fetch_oi_history", guarded |-> TRUE]>>
            [] OTHER -> <<>>)
         \o MetricSites(metrics, i + 1)

\* the wrapper calls one run of a script makes, in order, each with the
\* function it is made in and whether that function catches exceptions
CallSites(script, metrics) ==
    CASE script = "sol_hybrid_analysis" ->
           <<[fn |-> "_collect_price", guarded |-> TRUE],
             [fn |-> "_collect_open_interest", guarded |-> TRUE],
             [fn |-> "_collect_open_interest", guarded |-> TRUE],
             [fn |-> "_collect_funding", guarded |-> TRUE],
             [fn |-> "_collect_funding", guarded |-> TRUE],
             [fn |-> "_collect_long_short", guarded |-> TRUE],
             [fn |-> "_collect_liquidations", guarded |-> TRUE]>>
      [] script = "advanced_crypto_agent" ->
           <<[fn |-> "find_symbol_mappings", guarded |-> FALSE],
             [fn |-> "find_symbol_mappings", guarded |-> FALSE]>>
           \o MetricSites(metrics, 1)
      [] OTHER ->
           [i \in 1..6 |-> [fn |-> "fetch_all", guarded |-> FALSE]]
           \o [i \in 1..6 |-> [fn |-> "fetch_24h_series", guarded |-> FALSE]]

FetchScripts == {"sol_hybrid_analysis", "advanced_crypto_agent", "coinalyze_solana_agent"}

\* a script starts its data collection
FetchStart ==
    /\ fStage = "idle"
    /\ \E script \in FetchScripts :
          /\ fScript' = script
          /\ \E metrics \in (IF script = "advanced_crypto_agent"
                             THEN MetricLists ELSE {<<>>}) :
                fPlan' = CallSites(script, metrics)
          /\ \E key \in (IF script = "coinalyze_solana_agent"
                         THEN BOOLEAN ELSE {TRUE}) :
                fKey' = key
    /\ fPos' = 1
    /\ fLast' = NoCall
    /\ fDefaulted' = {}
    /\ fStage' = "fetching"
    /\ UNCHANGED notFetch

\* the next wrapper call of the run, and what its caller does with the outcome:
\* an exception leaves a guarded function with its default, and ends the run
\* when the function does not catch it
FetchCall ==
    /\ fStage = "fetching"
    /\ \E resp \in Responses :
       \E site \in {fPlan[fPos]} :
       \E out \in {CASE fScript = "sol_hybrid_analysis" -> _api_get(resp)
                     [] fScript = "advanced_crypto_agent" -> _coinalyze_get(resp)
                     [] OTHER -> _get(resp, fKey)} :
       \E after \in Least({j \in (fPos + 1)..(Len(fPlan) + 1) :
                             \/ out.kind # "raise"
                             \/ j > Len(fPlan)
                             \/ fPlan[j].fn # site.fn}) :
          /\ fLast' = [fn |-> site.fn, resp |-> IF fKey THEN resp ELSE "not_sent",
                       kind |-> out.kind, exc |-> out.exc]
          /\ IF out.kind = "raise" /\ ~site.guarded
             THEN /\ fStage' = "aborted"
                  /\ UNCHANGED <<fPos, fDefaulted>>
             ELSE /\ fPos' = after
                  /\ fDefaulted' = IF out.kind = "data" THEN fDefaulted
                                   ELSE fDefaulted \cup {site.fn}
                  /\ fStage' = IF after > Len(fPlan) THEN "llm" ELSE "fetching"
    /\ UNCHANGED <<fScript, fPlan, fKey>>
    /\ UNCHANGED notFetch

\* the run goes on to its LLM step, or has ended without one
FetchEnd ==
    /\ fStage \in {"llm", "aborted"}
    /\ fStage' = "idle"
    /\ fScript' = "none"
    /\ fPlan' = <<>>
    /\ fKey' = TRUE
    /\ fPos' = 1
    /\ fLast' = NoCall
    /\ fDefaulted' = {}
    /\ UNCHANGED notFetch

InitFetch ==
    /\ fStage = "idle"
    /\ fScript = "none"
    /\ fPlan = <<>>
    /\ fKey = TRUE
    /\ fPos = 1
    /\ fLast = NoCall
    /\ fDefaulted = {}

NextFetch == FetchStart \/ FetchCall \/ FetchEnd

\* C4 as stated: a failed fetch never raises out of a wrapper and never ends a run
Orig_C4 ==
    fStage # "idle" => (fLast.kind # "raise" /\ fStage # "aborted")

\* C4: only _api_get turns a failed fetch into a default (None) and always lets
\* the run reach its LLM step; _coinalyze_get raises ValueError on every failed
\* fetch, which a fetch_* method turns into {} and find_symbol_mappings lets end
\* the run; _get raises on every failed fetch and that ends the run
Thm_C4 ==
    /\ fScript = "sol_hybrid_analysis" =>
          /\ fLast.kind # "raise"
          /\ fStage # "aborted"
          /\ (fLast.resp \notin {"ok", "none"} =>
                 fLast.kind = "returned_none" /\ fLast.fn \in fDefaulted)
    /\ (fScript = "advanced_crypto_agent" /\ fLast.resp \notin {"ok", "none"}) =>
          /\ fLast.kind = "raise" /\ fLast.exc = "ValueError"
          /\ IF fLast.fn = "find_symbol_mappings"
             THEN fStage = "aborted"
             ELSE fStage # "aborted" /\ fLast.fn \in fDefaulted
    /\ (fScript = "coinalyze_solana_agent" /\ fLast.resp \notin {"ok", "none"}) =>
          fLast.kind = "raise" /\ fStage = "aborted"
    /\ fStage = "llm" => fPos = Len(fPlan) + 1

\* a fetch_* method of advanced_crypto_agent got an exception from the wrapper,
\* returned {} and the run reached the LLM step
Witness_C4 ==
    /\ fScript = "advanced_crypto_agent"
    /\ fStage = "llm"
    /\ fLast.kind = "raise"
    /\ "fetch_open_interest" \in fDefaulted
-----------------------------------------------------------------------------
(* The stages of one run of scheduler.py and of o3_pattern_workflow.py *)

PipeScripts == {"scheduler", "o3_pattern_workflow"}

\* AUTO_SEND_TO_WHATSAPP: not set, or set to a text
AutoSendEnv ==
    {[set |-> FALSE, value |-> <<>>]} \cup
    {[set |-> TRUE, value |-> v] : v \in {<<"t", "r", "u", "e">>, <<"T", "r", "u", "e">>, <<"f", "a", "l", "s", "e">>}}

\* os.getenv('AUTO_SEND_TO_WHATSAPP', default).lower() == 'true'
AutoSend(script, env) ==
    Lower(IF env.set THEN env.value
          ELSE IF script \in {"o3_pattern_workflow", "sol_hybrid_analysis"}
          THEN <<"f", "a", "l", "s", "e">> ELSE <<"t", "r", "u", "e">>) = <<"t", "r", "u", "e">>

\* the file the analysis function of the script saves its results to
AnalysisFile(script) ==
    IF script = "scheduler" THEN "o3_enhanced_analysis.json" ELSE "pattern_analysis.json"

\* send_analysis_to_whatsapp called with the positional arguments `args`:
\* binding analysis_file fails unless exactly one is given
send_analysis_to_whatsapp(args, files) ==
    IF Len(args) # 1 THEN [raised |-> TRUE, events |-> <<>>]
    ELSE IF args[1] \notin files THEN [raised |-> FALSE, events |-> <<>>]
    ELSE [raised |-> FALSE, events |-> <<"send_attempt:" \o args[1]>>]

\* the stage that follows the write of the analysis file (not what the code does:
\* the results are written once the send is over)
AfterStage_late_write(script, phase, pc, ok) ==
    CASE pc = "fetch" /\ ok -> [pc |-> "llm", phase |-> phase]
      [] pc = "fetch" /\ script = "o3_pattern_workflow" /\ phase = "primary" ->
           [pc |-> "fetch", phase |-> "backup"]
      [] pc = "fetch" -> [pc |-> "end", phase |-> "none"]
      [] pc = "llm" /\ ~ok -> [pc |-> "end", phase |-> "none"]
      [] pc = "llm" /\ phase = "backup" -> [pc |-> "send", phase |-> phase]
      [] pc = "llm" /\ script = "scheduler" -> [pc |-> "send", phase |-> phase]
      [] pc = "llm" -> [pc |-> "format", phase |-> phase]
      [] pc = "format" -> [pc |-> "send", phase |-> phase]
      [] pc = "write_analysis" -> [pc |-> "end", phase |-> phase]
      [] pc = "send" /\ script = "scheduler" -> [pc |-> "write_analysis", phase |-> phase]
      [] pc = "send" -> [pc |-> "write_results", phase |-> phase]
      [] OTHER -> [pc |-> "end", phase |-> phase]

\* the stage that follows stage `pc`, which succeeded or not (ok), in the
\* primary or the backup analysis of the run
AfterStage(script, phase, pc, ok) ==
    CASE pc = "fetch" /\ ok -> [pc |-> "llm", phase |-> phase]
      [] pc = "fetch" /\ script = "o3_pattern_workflow" /\ phase = "primary" ->
           [pc |-> "fetch", phase |-> "backup"]
      [] pc = "fetch" -> [pc |-> "end", phase |-> "none"]
      [] pc = "llm" /\ ~ok -> [pc |-> "end", phase |-> "none"]
      [] pc = "llm" /\ phase = "backup" -> [pc |-> "send", phase |-> phase]
      [] pc = "llm" /\ script = "scheduler" -> [pc |-> "write_analysis", phase |-> phase]
      [] pc = "llm" -> [pc |-> "format", phase |-> phase]
      [] pc = "format" -> [pc |-> "write_analysis", phase |-> phase]
      [] pc = "write_analysis" -> [pc |-> "send", phase |-> phase]
      [] pc = "send" /\ script = "scheduler" -> [pc |-> "end", phase |-> phase]
      [] pc = "send" -> [pc |-> "write_results", phase |-> phase]
      [] OTHER -> [pc |-> "end", phase |-> phase]

\* run_analysis_and_send / main is entered
PipeStart ==
    /\ pPc = "idle"
    /\ \E script \in PipeScripts : pScript' = script
    /\ \E env \in AutoSendEnv : pEnv' = env
    /\ pPc' = "fetch"
    /\ pPhase' = "primary"
    /\ pTrace' = <<>>
    /\ UNCHANGED pFiles
    /\ UNCHANGED notPipe

\* the data collection of the analysis function: it yields data or nothing
PipeFetch ==
    /\ pPc = "fetch"
    /\ \E ok \in BOOLEAN :
       \E nxt \in {AfterStage(pScript, pPhase, "fetch", ok)} :
          /\ pPc' = nxt.pc
          /\ pPhase' = nxt.phase
    /\ pTrace' = Append(pTrace, "fetch")
    /\ UNCHANGED <<pScript, pEnv, pFiles>>
    /\ UNCHANGED notPipe

\* the LLM call: analyze_with_o3 may raise, the other two return a text always
PipeLLM ==
    /\ pPc = "llm"
    /\ \E ok \in (IF pScript = "scheduler" THEN BOOLEAN ELSE {TRUE}) :
       \E nxt \in {AfterStage(pScript, pPhase, "llm", ok)} :
          /\ pPc' = nxt.pc
          /\ pPhase' = nxt.phase
          /\ pTrace' = pTrace \o (IF ok THEN <<"llm_call", "llm_return">>
                                  ELSE <<"llm_call">>)
    /\ UNCHANGED <<pScript, pEnv, pFiles>>
    /\ UNCHANGED notPipe

\* format_whatsapp_analysis
PipeFormat ==
    /\ pPc = "format"
    /\ \E nxt \in {AfterStage(pScript, pPhase, "format", TRUE)} :
          /\ pPc' = nxt.pc
          /\ pPhase' = nxt.phase
    /\ pTrace' = Append(pTrace, "format")
    /\ UNCHANGED <<pScript, pEnv, pFiles>>
    /\ UNCHANGED notPipe

\* the analysis function saves its results and returns them
PipeWriteAnalysis ==
    /\ pPc = "write_analysis"
    /\ \E nxt \in {AfterStage(pScript, pPhase, "write_analysis", TRUE)} :
          /\ pPc' = nxt.pc
          /\ pPhase' = nxt.phase
    /\ pFiles' = pFiles \cup {AnalysisFile(pScript)}
    /\ pTrace' = Append(pTrace, "write:" \o AnalysisFile(pScript))
    /\ UNCHANGED <<pScript, pEnv>>
    /\ UNCHANGED notPipe

\* the WhatsApp block: scheduler.py calls send_analysis_to_whatsapp() and
\* catches what it raises; the workflow calls send_to_whatsapp(final_result),
\* which sends the 'whatsapp_format' text only the primary analysis provides
PipeSend ==
    /\ pPc = "send"
    /\ \E nxt \in {AfterStage(pScript, pPhase, "send", TRUE)} :
          /\ pPc' = nxt.pc
          /\ pPhase' = nxt.phase
    /\ pTrace' =
          IF ~AutoSend(pScript, pEnv) THEN pTrace
          ELSE IF pScript = "scheduler"
          THEN pTrace \o <<"send_step">> \o send_analysis_to_whatsapp(<<>>, pFiles).events
          ELSE IF pPhase = "primary"
          THEN pTrace \o <<"send_step", "send_attempt:whatsapp_format">>
          ELSE pTrace \o <<"send_step">>
    /\ UNCHANGED <<pScript, pEnv, pFiles>>
    /\ UNCHANGED notPipe

\* o3_pattern_workflow.main saves the workflow results
PipeWriteResults ==
    /\ pPc = "write_results"
    /\ pPc' = "end"
    /\ pFiles' = pFiles \cup {"o3_pattern_workflow_results.json"}
    /\ pTrace' = Append(pTrace, "write:o3_pattern_workflow_results.json")
    /\ UNCHANGED <<pScript, pEnv, pPhase>>
    /\ UNCHANGED notPipe

\* the run returns; the files stay on disk
PipeEnd ==
    /\ pPc = "end"
    /\ pPc' = "idle"
    /\ pScript' = "none"
    /\ pEnv' = [set |-> FALSE, value |-> <<>>]
    /\ pPhase' = "none"
    /\ pTrace' = <<>>
    /\ UNCHANGED pFiles
    /\ UNCHANGED notPipe

InitPipe ==
    /\ pPc = "idle"
    /\ pScript = "none"
    /\ pEnv = [set |-> FALSE, value |-> <<>>]
    /\ pPhase = "none"
    /\ pTrace = <<>>
    /\ pFiles = {}

NextPipe ==
    \/ PipeStart \/ PipeFetch \/ PipeLLM \/ PipeFormat
    \/ PipeWriteAnalysis \/ PipeSend \/ PipeWriteResults \/ PipeEnd

\* event a happened, and before every event b of the run
AllBefore(a, b) ==
    \A j \in DOMAIN pTrace : pTrace[j] = b => \E i \in 1..(j - 1) : pTrace[i] = a

IsWrite(e) ==
    e \in {"write:o3_enhanced_analysis.json", "write:pattern_analysis.json",
           "write:o3_pattern_workflow_results.json"}

Orig_C7 ==
    (/\ pScript = "scheduler"
     /\ pPc = "end"
     /\ \E i \in DOMAIN pTrace : pTrace[i] = "write:o3_enhanced_analysis.json"
     /\ AutoSend(pScript, pEnv))
    => \E i \in DOMAIN pTrace : pTrace[i] = "send_attempt:o3_enhanced_analysis.json"
-----------------------------------------------------------------------------
(* scheduler.py: setup_scheduler and its polling loop.  Time is counted in   *)
(* minutes from the call of setup_scheduler; time.sleep(60) is one minute.   *)

\* the clock value after which the model stops following the loop
MaxTime == 12

\* the longest a run of run_analysis_and_send takes, in minutes
MaxJobDuration == 2

\* ANALYSIS_INTERVAL_MINUTES (values of the custom-interval branch)
Intervals == {2, 3}

\* a next run planned without the interval (not what the library does)
ScheduleNextRunNow(now, interval) == now

\* schedule's Job: the next run is planned one interval after the moment the
\* job is registered, and after the moment each run of it has returned
ScheduleNextRun(now, interval) == now + interval

\* schedule.every(interval_minutes).minutes.do(run_analysis_and_send)
SetupScheduler ==
    /\ sPc = "setup"
    /\ \E interval \in Intervals :
          /\ sInterval' = interval
          /\ sNextRun' = ScheduleNextRun(sClock, interval)
    /\ sPc' = "initial"
    /\ UNCHANGED <<sClock, sStarts, sEnds>>
    /\ UNCHANGED notSched

\* "Run immediately on startup": run_analysis_and_send() outside the schedule
InitialRun ==
    /\ sPc = "initial"
    /\ \E d \in 0..MaxJobDuration :
          /\ sClock + d <= MaxTime
          /\ sStarts' = Append(sStarts, sClock)
          /\ sClock' = sClock + d
          /\ sEnds' = Append(sEnds, sClock + d)
    /\ sPc' = "poll"
    /\ UNCHANGED <<sInterval, sNextRun>>
    /\ UNCHANGED notSched

\* schedule.run_pending(): the job runs when its planned time has come, and
\* is planned again when it has returned
RunPending ==
    /\ sPc = "poll"
    /\ IF sClock >= sNextRun
       THEN \E d \in 0..MaxJobDuration :
               /\ sClock + d <= MaxTime
               /\ sStarts' = Append(sStarts, sClock)
               /\ sClock' = sClock + d
               /\ sEnds' = Append(sEnds, sClock + d)
               /\ sNextRun' = ScheduleNextRun(sClock + d, sInterval)
       ELSE UNCHANGED <<sStarts, sClock, sEnds, sNextRun>>
    /\ sPc' = "sleep"
    /\ UNCHANGED sInterval
    /\ UNCHANGED notSched

\* time.sleep(60)
Sleep ==
    /\ sPc = "sleep"
    /\ sClock < MaxTime
    /\ sClock' = sClock + 1
    /\ sPc' = "poll"
    /\ UNCHANGED <<sInterval, sNextRun, sStarts, sEnds>>
    /\ UNCHANGED notSched

InitSched ==
    /\ sPc = "setup"
    /\ sClock = 0
    /\ sInterval = 0
    /\ sNextRun = 0
    /\ sStarts = <<>>
    /\ sEnds = <<>>

NextSched == SetupScheduler \/ InitialRun \/ RunPending \/ Sleep

\* the runs started in the k-th interval after the start of the scheduler
RunsInInterval(k) ==
    {i \in DOMAIN sStarts : k * sInterval <= sStarts[i] /\ sStarts[i] < (k + 1) * sInterval}

\* the intervals after the first that are over
PastIntervals ==
    IF sInterval = 0 THEN {}
    ELSE {k \in 1..MaxTime : (k + 1) * sInterval <= sClock}

\* C6 as stated: every interval after the one of the initial run gets exactly one run
Orig_C6 ==
    \A k \in PastIntervals : Cardinality(RunsInInterval(k)) = 1

\* C6: two runs never start less than one interval apart, so no interval gets
\* two runs; a scheduled run starts one interval after the previous scheduled
\* run has returned (the first one: one interval after the start, or when the
\* initial run returns if that is later), so the runs are an interval plus a
\* run's duration apart and intervals can pass without a run
Thm_C6 ==
    /\ \A i \in 1..(Len(sStarts) - 1) : sStarts[i + 1] - sStarts[i] >= sInterval
    /\ \A k \in PastIntervals : Cardinality(RunsInInterval(k)) <= 1
    /\ Len(sStarts) >= 2 =>
          sStarts[2] = (IF sEnds[1] > sInterval THEN sEnds[1] ELSE sInterval)
    /\ \A i \in 2..(Len(sStarts) - 1) : sStarts[i + 1] = sEnds[i] + sInterval

\* the scheduler has made its initial and two scheduled runs, and an interval
\* is over in which no run started
Witness_C6 ==
    /\ Len(sStarts) >= 3
    /\ \E k \in PastIntervals : RunsInInterval(k) = {}
-----------------------------------------------------------------------------
(* sol_hourly_analysis.py: the hourly run with its saved state.              *)
(* Prices are in dollars, open interest and liquidations in units of         *)
(* $100k, funding in thousandths of a percent, the L/S ratio in hundredths,  *)
(* the 24h changes in tenths of a percent and timestamps in hours.           *)

\* the last hour the model follows
MaxHours == 6

\* the longest pause between two runs, in hours
MaxGap == 5

\* load_last_state found no readable state file
NoState == [none |-> TRUE]

BaseSnapshot ==
    [timestamp |-> 0, price |-> 150, price_24h_change |-> 10, oi_usd |-> 10000,
     oi_24h_change |-> 20, funding_pct |-> 10, ls_ratio |-> 200, ls_24h_change |-> 50,
     long_liq_6h |-> 5, short_liq_6h |-> 5]

\* what get_current_snapshot can return: a quiet market, one metric moved, or
\* the zeros it keeps when every fetch failed
Snapshots ==
    {BaseSnapshot,
     [BaseSnapshot EXCEPT !.price = 160],
     [BaseSnapshot EXCEPT !.oi_usd = 11000],
     [BaseSnapshot EXCEPT !.funding_pct = 80],
     [BaseSnapshot EXCEPT !.ls_ratio = 250],
     [BaseSnapshot EXCEPT !.price_24h_change = 50],
     [BaseSnapshot EXCEPT !.oi_24h_change = 90],
     [BaseSnapshot EXCEPT !.ls_24h_change = -200],
     [BaseSnapshot EXCEPT !.long_liq_6h = 40, !.short_liq_6h = 20],
     [timestamp |-> 0, price |-> 0, price_24h_change |-> 0, oi_usd |-> 0,
      oi_24h_change |-> 0, funding_pct |-> 0, ls_ratio |-> 0, ls_24h_change |-> 0,
      long_liq_6h |-> 0, short_liq_6h |-> 0]}

Abs(x) == IF x < 0 THEN -x ELSE x

\* should_send_alert(current, last): the returned pair, or the exception of a
\* division by a zero of the last state
should_send_alert(current, last) ==
    IF last = NoState
    THEN [kind |-> "return", send |-> TRUE, reason |-> "First analysis"]
    ELSE IF last.price = 0 \/ last.oi_usd = 0 \/ last.ls_ratio = 0
    THEN [kind |-> "raise", send |-> FALSE, reason |-> "ZeroDivisionError"]
    ELSE CASE Abs(current.price - last.price) * 100 > 2 * last.price ->
                [kind |-> "return", send |-> TRUE, reason |-> "Price moved"]
           [] Abs(current.oi_usd - last.oi_usd) * 100 > 5 * last.oi_usd ->
                [kind |-> "return", send |-> TRUE, reason |-> "OI changed"]
           [] Abs(current.funding_pct - last.funding_pct) > 50 ->
                [kind |-> "return", send |-> TRUE, reason |-> "Funding shifted"]
           [] Abs(current.ls_ratio - last.ls_ratio) * 100 > 10 * last.ls_ratio ->
                [kind |-> "return", send |-> TRUE, reason |-> "L/S changed"]
           [] Abs(current.price_24h_change - last.price_24h_change) > 30 ->
                [kind |-> "return", send |-> TRUE, reason |-> "24h momentum shift"]
           [] Abs(current.oi_24h_change) > 80 ->
                [kind |-> "return", send |-> TRUE, reason |-> "OI 24h change"]
           [] Abs(current.ls_24h_change) > 150 ->
                [kind |-> "return", send |-> TRUE, reason |-> "L/S 24h change"]
           [] current.long_liq_6h + current.short_liq_6h > 50 ->
                [kind |-> "return", send |-> TRUE, reason |-> "High liquidations"]
           [] current.timestamp - last.timestamp > 4 ->
                [kind |-> "return", send |-> TRUE, reason |-> "4+ hours since last update"]
           [] OTHER ->
                [kind |-> "return", send |-> FALSE, reason |-> "No significant changes"]

\* WhatsAppSender.send_message(message, template_vars): the checks it makes
\* before any request; `configured` is client, recipients and template SID,
\* `accepted` whether Twilio takes the message of some recipient
send_message(configured, template_vars, accepted) ==
    IF ~configured THEN FALSE
    ELSE IF DOMAIN template_vars = {} THEN FALSE
    ELSE IF \E k \in {"1", "2", "3", "4", "5", "6", "7", "8", "9", "10", "11", "12"} :
               k \notin DOMAIN template_vars THEN FALSE
    ELSE accepted

\* a run that goes on to the analysis whatever was decided (not what the code does)
AfterDecisionAlways(decision) == "analyze"

\* run_hourly_analysis after should_send_alert: the exception is caught by
\* the run's except, "no" returns, "yes" goes on to the analysis
AfterDecision(decision) ==
    IF decision.kind = "return" /\ decision.send THEN "analyze" ELSE "end"

\* a run starts some hours after the previous one and takes its snapshot
HourlyStart ==
    /\ hPc = "idle"
    /\ \E gap \in 0..MaxGap :
          /\ hClock + gap <= MaxHours
          /\ hClock' = hClock + gap
          /\ \E s \in Snapshots : hCurrent' = [s EXCEPT !.timestamp = hClock + gap]
    /\ \E env \in AutoSendEnv : hEnv' = env
    /\ hPc' = "decide"
    /\ UNCHANGED <<hState, hDecision, hDone>>
    /\ UNCHANGED notHourly

\* load_last_state and should_send_alert
HourlyDecide ==
    /\ hPc = "decide"
    /\ hDecision' = should_send_alert(hCurrent, hState)
    /\ hPc' = AfterDecision(hDecision')
    /\ UNCHANGED <<hClock, hCurrent, hEnv, hState, hDone>>
    /\ UNCHANGED notHourly

\* analyze_with_reasoning (which returns a text whatever the LLM does) and
\* format_whatsapp
HourlyAnalyze ==
    /\ hPc = "analyze"
    /\ hDone' = hDone \cup {"llm"}
    /\ hPc' = "send"
    /\ UNCHANGED <<hClock, hCurrent, hEnv, hState, hDecision>>
    /\ UNCHANGED notHourly

\* a variant that writes the state file whatever the send reported
StateAfterSendAlways(success, current, last) == current

\* the contents of the state file after the send block with auto-send
\* enabled: save_state(current) is called only `if success`
StateAfterSend(success, current, last) == IF success THEN current ELSE last

\* the WhatsApp block: send_message(whatsapp_msg) and save_state on success,
\* or save_state alone when auto-send is disabled
HourlySend ==
    /\ hPc = "send"
    /\ IF AutoSend("sol_hourly_analysis", hEnv)
       THEN \E configured \in BOOLEAN, accepted \in BOOLEAN :
            \E success \in {send_message(configured, <<>>, accepted)} :
               /\ hState' = StateAfterSend(success, hCurrent, hState)
               /\ hDone' = hDone \cup (IF success THEN {"send", "sent", "save"}
                                       ELSE {"send"})
       ELSE /\ hState' = hCurrent
            /\ hDone' = hDone \cup {"save"}
    /\ hPc' = "end"
    /\ UNCHANGED <<hClock, hCurrent, hEnv, hDecision>>
    /\ UNCHANGED notHourly

\* the run returns
HourlyEnd ==
    /\ hPc = "end"
    /\ hPc' = "idle"
    /\ hDone' = {}
    /\ hDecision' = [kind |-> "none", send |-> FALSE, reason |-> "none"]
    /\ hCurrent' = BaseSnapshot
    /\ hEnv' = [set |-> FALSE, value |-> <<>>]
    /\ UNCHANGED <<hClock, hState>>
    /\ UNCHANGED notHourly

InitHourly ==
    /\ hPc = "idle"
    /\ hClock = 0
    /\ hState = NoState
    /\ hCurrent = BaseSnapshot
    /\ hEnv = [set |-> FALSE, value |-> <<>>]
    /\ hDecision = [kind |-> "none", send |-> FALSE, reason |-> "none"]
    /\ hDone = {}

NextHourly == HourlyStart \/ HourlyDecide \/ HourlyAnalyze \/ HourlySend \/ HourlyEnd

\* C8: when should_send_alert reports no significant change, the run ends
\* without an LLM call, without a send and without a write of the state file
Thm_C8 ==
    (hDecision.kind = "return" /\ ~hDecision.send) =>
       (hPc = "end" /\ hDone = {})

\* a run with a saved state has ended on "No significant changes"
Witness_C8 ==
    /\ hPc = "end"
    /\ hState # NoState
    /\ hDecision.reason = "No significant changes"

\* the metric values of two snapshots are the same
SameMetrics(a, b) == [a EXCEPT !.timestamp = 0] = [b EXCEPT !.timestamp = 0]

\* C9: a run that observes the metric values of the saved last state less than
\* 4 hours after it decides to send no alert
Orig_C9 ==
    (/\ hPc \in {"analyze", "send", "end"}
     /\ hState # NoState
     /\ "save" \notin hDone
     /\ SameMetrics(hCurrent, hState)
     /\ hCurrent.timestamp > hState.timestamp
     /\ hCurrent.timestamp - hState.timestamp < 4
     /\ hDecision.kind = "return")
    => ~hDecision.send

\* C16: with auto-send enabled, the send block of a run writes the state
\* file if and only if the run's send_message call reported success; after
\* a failed send the file holds what it held before.
Thm_C16 ==
    [][(hPc = "send" /\ AutoSend("sol_hourly_analysis", hEnv)) =>
          /\ "save" \in hDone' <=> "sent" \in hDone'
          /\ "sent" \notin hDone' => hState' = hState
          /\ "sent" \in hDone' => hState' = hCurrent]_vars

\* a run with auto-send enabled whose send failed has ended, and the state
\* an earlier run saved, with other metric values, is still in the file
Witness_C16 ==
    /\ hPc = "end"
    /\ AutoSend("sol_hourly_analysis", hEnv)
    /\ "send" \in hDone
    /\ "sent" \notin hDone
    /\ hState # NoState
    /\ ~SameMetrics(hCurrent, hState)

\* C17: a run that starts more than 4 hours after the saved state was
\* taken gets True from should_send_alert, whatever the metric values of
\* the two snapshots.
Orig_C17 ==
    (/\ hDecision.kind # "none"
     /\ "save" \notin hDone
     /\ hState # NoState
     /\ hCurrent.timestamp - hState.timestamp > 4)
    => (hDecision.kind = "return" /\ hDecision.send)

\* the same for a saved state whose price, open interest and long/short
\* ratio are not zero
NonZero_C17 ==
    (/\ hDecision.kind # "none"
     /\ "save" \notin hDone
     /\ hState # NoState
     /\ hState.price # 0 /\ hState.oi_usd # 0 /\ hState.ls_ratio # 0
     /\ hCurrent.timestamp - hState.timestamp > 4)
    => (hDecision.kind = "return" /\ hDecision.send)
-----------------------------------------------------------------------------
(* sol_24h_evolution_analysis.py: the rewritten hourly run *)

\* the most recipients WHATSAPP_TO_NUMBERS names
MaxRecipients == 2

\* a decision that suppresses the alert of an unchanged snapshot (not what the code does)
EvoShouldSendChanged(current, previous) == current # previous

\* run: should_send = True, whatever the snapshot and the earlier runs were
EvoShouldSend(current, previous) == TRUE

\* run starts: get_current_snapshot returns a snapshot or raises, and the
\* run goes on if should_send
EvoStart ==
    /\ ePc = "idle"
    /\ \E env \in AutoSendEnv : eEnv' = env
    /\ \E n \in 0..MaxRecipients : eRecipients' = n
    /\ \/ /\ eSnap' = NoState
          /\ ePc' = "end"
       \/ \E s \in Snapshots :
             /\ eSnap' = s
             /\ ePc' = IF EvoShouldSend(s, ePrev) THEN "analyze" ELSE "end"
    /\ UNCHANGED <<ePrev, eDone, eFailed>>
    /\ UNCHANGED notEvo

\* analyze_with_reasoning, which calls the model and returns its text or the
\* fixed fallback text, and format_whatsapp
EvoAnalyze ==
    /\ ePc = "analyze"
    /\ \E answered \in BOOLEAN :
          eDone' = eDone \cup {"llm", IF answered THEN "analysis" ELSE "fallback"}
    /\ ePc' = "send"
    /\ UNCHANGED <<eEnv, eRecipients, eSnap, ePrev, eFailed>>
    /\ UNCHANGED notEvo

\* the WhatsApp block: with auto-send and recipients, one
\* send_message(whatsapp_msg) for each recipient
EvoSend ==
    /\ ePc = "send"
    /\ IF AutoSend("sol_24h_evolution_analysis", eEnv)
       THEN \E configured \in BOOLEAN, accepted \in [1..eRecipients -> BOOLEAN] :
               /\ eFailed' = Cardinality({r \in 1..eRecipients :
                                ~send_message(configured, <<>>, accepted[r])})
               /\ eDone' = eDone \cup {"send_block"} \cup
                              (IF eRecipients > 0 THEN {"send_message"} ELSE {})
       ELSE UNCHANGED <<eDone, eFailed>>
    /\ ePc' = "end"
    /\ UNCHANGED <<eEnv, eRecipients, eSnap, ePrev>>
    /\ UNCHANGED notEvo

\* run returns; the snapshot it had is from now on the one of the earlier run
EvoEnd ==
    /\ ePc = "end"
    /\ ePc' = "idle"
    /\ ePrev' = IF eSnap = NoState THEN ePrev ELSE eSnap
    /\ eSnap' = NoState
    /\ eEnv' = [set |-> FALSE, value |-> <<>>]
    /\ eRecipients' = 0
    /\ eDone' = {}
    /\ eFailed' = 0
    /\ UNCHANGED notEvo

InitEvo ==
    /\ ePc = "idle"
    /\ ePrev = NoState
    /\ eSnap = NoState
    /\ eEnv = [set |-> FALSE, value |-> <<>>]
    /\ eRecipients = 0
    /\ eDone = {}
    /\ eFailed = 0

NextEvo == EvoStart \/ EvoAnalyze \/ EvoSend \/ EvoEnd

\* C10: run never reads or writes a state file, and every run that obtained a
\* snapshot, whatever the earlier run saw, ends having called the LLM analysis
\* and, with auto-send enabled, having entered the send step
Thm_C10 ==
    /\ eDone \cap {"read_state", "write_state"} = {}
    /\ ePc \in {"analyze", "send"} => eSnap # NoState
    /\ (ePc \in {"send", "end"} /\ eSnap # NoState) => "llm" \in eDone
    /\ (ePc = "end" /\ eSnap # NoState /\ AutoSend("sol_24h_evolution_analysis", eEnv))
          => "send_block" \in eDone

\* a run whose snapshot is the one of the earlier run has called the LLM and
\* send_message
Witness_C10 ==
    /\ ePc = "end"
    /\ eSnap # NoState
    /\ eSnap = ePrev
    /\ {"llm", "send_message"} \subseteq eDone
-----------------------------------------------------------------------------
(* whatsapp_sender.py: send_analysis_summary and send_message              *)
(*                                                                         *)
(* The last line of send_analysis_summary, a `return False`, stands at the *)
(* indentation of the loop body although the try statement before it is    *)
(* not consistently indented.  Both placements of the line that do not     *)
(* move it into another block are modelled: in the loop body after the     *)
(* try statement, as it is written, and after the loop.                    *)

max_retries == 3

Layouts == {"loop_body", "after_loop"}

\* re.split(r"[\s,;]+", raw) without its blank parts, and the single
\* number WHATSAPP_TO_NUMBER when that gives nothing
_parse_recipients(raw, to_number) ==
    LET sep == Whitespace \cup {",", ";"}
        starts == SelectSeq([i \in 1..Len(raw) |-> i],
                            LAMBDA i : raw[i] \notin sep /\ (i = 1 \/ raw[i - 1] \in sep))
        Part(start) ==
            Only({Slice(raw, start, IF stop = {} THEN Len(raw) ELSE Only(stop) - 1) :
                    stop \in {Least({i \in start..Len(raw) : raw[i] \in sep})}})
    IN  IF starts # <<>> THEN [j \in 1..Len(starts) |-> Part(starts[j])]
        ELSE IF Strip(to_number) # <<>> THEN <<Strip(to_number)>>
        ELSE <<>>

\* recipient.replace('+', '').replace(' ', '').replace('-', '').isdigit()
ValidNumber(recipient) ==
    \E clean_number \in {Remove(recipient, {"+", " ", "-"})} :
        clean_number # <<>> /\ AllDigits(clean_number)

\* what the loop body of send_message can come to for one recipient: the
\* number is skipped, messages.create raises, the status polling ends with
\* a status, or the status block raises
RecipientOutcomes(recipient) ==
    IF ~ValidNumber(recipient) THEN {"invalid_number"}
    ELSE {"create_error", "delivered", "failed", "undelivered", "not_final", "status_error"}

\* the outcomes after which any_success is set
Delivered == {"delivered", "status_error"}

\* the checks of send_message before its loop: the reason it returns
\* False without sending, or "ok"
SendPrecheck(env, recipients, template_vars) ==
    IF ~env.client THEN "no client"
    ELSE IF recipients = <<>> THEN "no recipients"
    ELSE IF ~env.template_sid THEN "no template SID"
    ELSE IF DOMAIN template_vars = {} THEN "no template variables"
    ELSE IF ~(NumericSlots \cup TextSlots \subseteq DOMAIN template_vars)
    THEN "missing template variables"
    ELSE "ok"

\* a variant of the loop that gives up at the first recipient it fails for
NextRecipientStopping(index, outcome, count) ==
    IF outcome \in Delivered THEN index + 1 ELSE count + 1

\* the recipient the loop of send_message turns to after the one at index:
\* every branch of the loop body ends the iteration, none ends the loop
NextRecipient(index, outcome, count) == index + 1

\* a variant that goes on to the next attempt although the send succeeded
AfterAttemptRetrying(attempt, outcome, layout) ==
    IF attempt = max_retries - 1
    THEN [pc |-> "returned", attempt |-> attempt,
          result |-> IF outcome = "sent" THEN "True" ELSE "False"]
    ELSE [pc |-> "attempt", attempt |-> attempt + 1, result |-> "none"]

\* how an iteration of the loop of send_analysis_summary ends: with a
\* return, or with the next iteration
AfterAttempt(attempt, outcome, layout) ==
    LET Return(value) == [pc |-> "returned", attempt |-> attempt, result |-> value]
        Continue == [pc |-> "attempt", attempt |-> attempt + 1, result |-> "none"]
        \* the statement after the try statement
        EndOfBody ==
            IF layout = "loop_body" \/ attempt = max_retries - 1
            THEN Return("False") ELSE Continue
    IN  CASE outcome \in {"too_short", "invalid_vars"} ->
                IF attempt = max_retries - 1 THEN Return("False") ELSE Continue
          [] outcome = "sent" -> Return("True")
          [] outcome = "send_failed" -> EndOfBody
          [] outcome = "exception" ->
                IF attempt = max_retries - 1 THEN Return("False") ELSE EndOfBody

\* what analysis_data may be: not a dict, or a dict with an analysis text
SummaryData ==
    {[dict |-> FALSE, analysis |-> <<>>]}
        \cup {[dict |-> TRUE, analysis |-> JoinLines(ls)] :
                ls \in {<<>>,
                        <<<<"L", "/", "S", ":", " ", "2", ".", "8", "9">>>>,
                        <<<<"S", "O", "L", " ", "2", "4", "h", " ", "c", "h", "a", "n", "g", "e", " ", "-", "4", ".", "5", "%">>>>,
                        <<<<"P", "r", "i", "c", "e", ":", " ", "$", "1", "2", "5", ".", "4", "5", " ", "(", "+", "3", ".", "2", "%", " ", "2", "4", "h", ")">>, <<"L", "/", "S", ":", " ", "2", ".", "8", "9">>>>,
                        <<<<"S", "I", "G", "N", "A", "L", ":", " ", "L", "O", "N", "G">>, <<"P", "r", "i", "c", "e", ":", " ", "$", "1", "2", "5", ".", "4", "5", " ", "(", "+", "3", ".", "2", "%", " ", "2", "4", "h", ")">>>>}}

\* the Twilio client, TWILIO_TEMPLATE_SID, WHATSAPP_TO_NUMBERS and
\* WHATSAPP_TO_NUMBER of a process
SenderEnvs ==
    [client : BOOLEAN, template_sid : BOOLEAN,
     numbers : {<<>>, <<"+", "1", "4", "1", "5">>, <<"+", "1", "4", "1", "5", ",", " ", "9", "4", "-", "7", "7">>, <<"w", "h", "a", "t", "s", "a", "p", "p", ":", "+", "1", "4", "1", "5", ";", "+", "9", "4", "7", "7">>},
     to_number : {<<>>, <<"+", "1", " ", "4", "1", "5">>}]

\* a caller enters send_analysis_summary(analysis_data), or calls
\* send_message(message) with the message text alone
SenderCall ==
    /\ wPc = "idle"
    /\ \E caller \in {"send_analysis_summary", "send_message"},
          env \in SenderEnvs, data \in SummaryData, layout \in Layouts :
          /\ caller = "send_message" => data = [dict |-> FALSE, analysis |-> <<>>]
          /\ caller = "send_message" => layout = "loop_body"
          /\ wCaller' = caller
          /\ wEnv' = env
          /\ wData' = data
          /\ wLayout' = layout
          /\ wPc' = IF caller = "send_analysis_summary" THEN "attempt" ELSE "send_message"
    /\ wAttempt' = 0
    /\ wTemplate' = <<>>
    /\ wRecipients' = <<>>
    /\ wIndex' = 1
    /\ wOutcomes' = <<>>
    /\ wSent' = <<>>
    /\ wResult' = "none"
    /\ UNCHANGED notSender

\* an iteration of the loop of send_analysis_summary up to its call of
\* send_message
SummaryAttempt ==
    /\ wPc = "attempt"
    /\ \E outcome \in
            {IF ~wData.dict THEN "exception"
             ELSE IF Len(Strip(wData.analysis)) < 10 THEN "too_short"
             ELSE "summary"} :
          IF outcome = "summary"
          THEN \E numeric \in {ExtractNumericSlots(wData.analysis)} :
               \E text \in {ExtractTextSlots(wData.analysis, numeric)} :
               \E template_vars \in
                     {_sanitize_template_vars([k \in NumericSlots \cup TextSlots |->
                         IF k \in NumericSlots THEN numeric[k] ELSE text[k]])} :
                  IF _validate_template_vars(template_vars)
                  THEN /\ wTemplate' = template_vars
                       /\ wPc' = "send_message"
                       /\ UNCHANGED <<wAttempt, wResult>>
                  ELSE \E after \in {AfterAttempt(wAttempt, "invalid_vars", wLayout)} :
                          /\ wTemplate' = template_vars
                          /\ wPc' = after.pc
                          /\ wAttempt' = after.attempt
                          /\ wResult' = after.result
          ELSE \E after \in {AfterAttempt(wAttempt, outcome, wLayout)} :
                  /\ wPc' = after.pc
                  /\ wAttempt' = after.attempt
                  /\ wResult' = after.result
                  /\ UNCHANGED wTemplate
    /\ UNCHANGED <<wCaller, wEnv, wData, wLayout, wRecipients, wIndex, wOutcomes, wSent>>
    /\ UNCHANGED notSender

\* send_message hands success to its caller
SendReturns(success) ==
    /\ wSent' = Append(wSent, success)
    /\ IF wCaller = "send_message"
       THEN /\ wPc' = "returned"
            /\ wResult' = IF success THEN "True" ELSE "False"
            /\ UNCHANGED wAttempt
       ELSE \E after \in {AfterAttempt(wAttempt, IF success THEN "sent" ELSE "send_failed",
                                       wLayout)} :
               /\ wPc' = after.pc
               /\ wAttempt' = after.attempt
               /\ wResult' = after.result

\* send_message up to its loop over the recipients
SendMessageEnter ==
    /\ wPc = "send_message"
    /\ \E recipients \in {_parse_recipients(wEnv.numbers, wEnv.to_number)} :
          IF SendPrecheck(wEnv, recipients, wTemplate) = "ok"
          THEN /\ wRecipients' = recipients
               /\ wPc' = "recipient"
               /\ UNCHANGED <<wAttempt, wResult, wSent>>
          ELSE /\ wRecipients' = <<>>
               /\ SendReturns(FALSE)
    /\ wIndex' = 1
    /\ wOutcomes' = <<>>
    /\ UNCHANGED <<wCaller, wEnv, wData, wLayout, wTemplate>>
    /\ UNCHANGED notSender

\* one iteration of the loop of send_message
SendRecipient ==
    /\ wPc = "recipient"
    /\ wIndex <= Len(wRecipients)
    /\ \E outcome \in RecipientOutcomes(wRecipients[wIndex]) :
          /\ wOutcomes' = Append(wOutcomes, outcome)
          /\ wIndex' = NextRecipient(wIndex, outcome, Len(wRecipients))
    /\ UNCHANGED <<wPc, wCaller, wEnv, wData, wLayout, wAttempt, wTemplate, wRecipients,
                   wSent, wResult>>
    /\ UNCHANGED notSender

\* the loop is over: return any_success
SendMessageReturn ==
    /\ wPc = "recipient"
    /\ wIndex > Len(wRecipients)
    /\ SendReturns(\E i \in 1..Len(wOutcomes) : wOutcomes[i] \in Delivered)
    /\ UNCHANGED <<wCaller, wEnv, wData, wLayout, wTemplate, wRecipients, wIndex, wOutcomes>>
    /\ UNCHANGED notSender

\* the caller has the result
SenderDone ==
    /\ wPc = "returned"
    /\ wPc' = "idle"
    /\ wResult' = "none"
    /\ wSent' = <<>>
    /\ wOutcomes' = <<>>
    /\ wRecipients' = <<>>
    /\ wTemplate' = <<>>
    /\ wIndex' = 1
    /\ wAttempt' = 0
    /\ UNCHANGED <<wCaller, wEnv, wData, wLayout>>
    /\ UNCHANGED notSender

InitSender ==
    /\ wPc = "idle"
    /\ wCaller = "send_message"
    /\ wEnv = [client |-> FALSE, template_sid |-> FALSE, numbers |-> <<>>, to_number |-> <<>>]
    /\ wData = [dict |-> FALSE, analysis |-> <<>>]
    /\ wLayout = "loop_body"
    /\ wAttempt = 0
    /\ wTemplate = <<>>
    /\ wRecipients = <<>>
    /\ wIndex = 1
    /\ wOutcomes = <<>>
    /\ wSent = <<>>
    /\ wResult = "none"

NextSender ==
    \/ SenderCall
    \/ SummaryAttempt
    \/ SendMessageEnter
    \/ SendRecipient
    \/ SendMessageReturn
    \/ SenderDone

-----------------------------------------------------------------------------
(* Claims about send_analysis_summary and send_message *)

Failed_C11 ==
    /\ wCaller = "send_analysis_summary"
    /\ wPc = "returned"
    /\ wSent = <<FALSE, FALSE, FALSE>>
    /\ wAttempt = max_retries - 1
    /\ wResult = "False"

\* C12: when the loop of send_message is over, every configured recipient
\* has had its iteration, and every recipient with a well-formed number its
\* messages.create call, whatever happened for the recipients before it.
Thm_C12 ==
    (wPc = "recipient" /\ wIndex > Len(wRecipients)) =>
        /\ Len(wOutcomes) = Len(wRecipients)
        /\ \A i \in 1..Len(wRecipients) :
              ValidNumber(wRecipients[i]) => wOutcomes[i] # "invalid_number"

\* messages.create failed for the first recipient and the message to the
\* second was delivered
Witness_C12 ==
    /\ wPc = "recipient"
    /\ wIndex > Len(wRecipients)
    /\ Len(wRecipients) = 2
    /\ wOutcomes = <<"create_error", "delivered">>

\* C15: a caller that passes only the message text to send_message, with
\* the client, the recipients and the template SID configured, has the
\* message sent to the recipients and gets True once it is delivered.
Orig_C15 ==
    (/\ wCaller = "send_message"
     /\ wPc = "returned"
     /\ wEnv.client
     /\ wEnv.template_sid
     /\ _parse_recipients(wEnv.numbers, wEnv.to_number) # <<>>) =>
        /\ wOutcomes # <<>>
        /\ (\E i \in 1..Len(wOutcomes) : wOutcomes[i] = "delivered") => wResult = "True"
-----------------------------------------------------------------------------
(* enhanced_whatsapp_sender.py: EnhancedWhatsAppSender *)

\* what a process that builds an EnhancedWhatsAppSender finds: the argument
\* prefer_evolution, whether the two modules import, what the gateway
\* answers, whether whatsapp_groups.json names a group, the Twilio
\* credentials and whether both WhatsApp numbers are set
EnhancedEnvs ==
    [prefer_evolution : BOOLEAN, EVOLUTION_AVAILABLE : BOOLEAN, TWILIO_AVAILABLE : BOOLEAN,
     connection : BOOLEAN, status : {"open", "close"}, group : BOOLEAN,
     credentials : BOOLEAN, numbers : BOOLEAN]

\* _init_evolution: the client is kept when the gateway is running and its
\* session is open; the group JID comes from whatsapp_groups.json
_init_evolution(env) ==
    IF env.connection /\ env.status = "open"
    THEN [evolution_client |-> TRUE, group_jid |-> env.group]
    ELSE [evolution_client |-> FALSE, group_jid |-> FALSE]

\* _init_twilio: a client when both credentials are set
_init_twilio(env) == env.credentials

\* __init__: the fields of the sender
EnhancedInit(env) ==
    LET prefer == env.prefer_evolution /\ env.EVOLUTION_AVAILABLE
        evolution == IF prefer THEN _init_evolution(env)
                     ELSE [evolution_client |-> FALSE, group_jid |-> FALSE]
    IN  [prefer_evolution |-> prefer,
         evolution_client |-> evolution.evolution_client,
         group_jid |-> evolution.group_jid,
         twilio_client |-> env.TWILIO_AVAILABLE /\ _init_twilio(env)]

\* the condition of the Evolution branch of send_message and of
\* send_analysis_summary
EvolutionFirst(sender) ==
    sender.prefer_evolution /\ sender.evolution_client /\ sender.group_jid

\* what send_text_message can come to: the gateway answers 200 with the
\* message, 200 without it, another status, or the request fails
EvolutionOutcomes == {"accepted", "no message", "bad status", "request error"}

\* a variant that goes on to Twilio whatever the gateway answered
AfterEvolutionAlways(success, sender) ==
    IF sender.twilio_client THEN "twilio" ELSE "none"

\* where the method goes after its Evolution branch: it returns True when
\* the send succeeded, and falls through to the Twilio branch otherwise
AfterEvolution(success, sender) ==
    IF success THEN "return"
    ELSE IF sender.twilio_client THEN "twilio" ELSE "none"

\* _send_twilio_message: False without both numbers, True when
\* messages.create returns, False when it raises
_send_twilio_message(env, created) ==
    IF ~env.numbers THEN "not configured"
    ELSE IF created THEN "accepted" ELSE "error"

\* send_alert_to_whatsapp / send_analysis_to_whatsapp: build the sender and
\* enter send_message or send_analysis_summary
EnhancedCall ==
    /\ xPc = "idle"
    /\ \E env \in EnhancedEnvs, method \in {"send_message", "send_analysis_summary"} :
          /\ xEnv' = env
          /\ xMethod' = method
          /\ xSender' = EnhancedInit(env)
          /\ xPc' = IF EvolutionFirst(xSender') THEN "evolution"
                    ELSE IF xSender'.twilio_client THEN "twilio" ELSE "none"
    /\ xTried' = <<>>
    /\ xResult' = "none"
    /\ UNCHANGED notEnhanced

\* the Evolution branch: send_text_message / send_analysis_to_group
EnhancedEvolution ==
    /\ xPc = "evolution"
    /\ \E outcome \in EvolutionOutcomes :
          /\ xTried' = Append(xTried, [channel |-> "evolution", outcome |-> outcome])
          /\ xPc' = AfterEvolution(outcome = "accepted", xSender)
          /\ xResult' = IF xPc' = "return" THEN "True" ELSE "none"
    /\ UNCHANGED <<xEnv, xMethod, xSender>>
    /\ UNCHANGED notEnhanced

\* the Twilio branch: return self._send_twilio_message(...)
EnhancedTwilio ==
    /\ xPc = "twilio"
    /\ \E created \in BOOLEAN :
       \E outcome \in {_send_twilio_message(xEnv, created)} :
          /\ xTried' = IF outcome = "not configured" THEN xTried
                       ELSE Append(xTried, [channel |-> "twilio", outcome |-> outcome])
          /\ xResult' = IF outcome = "accepted" THEN "True" ELSE "False"
    /\ xPc' = "return"
    /\ UNCHANGED <<xEnv, xMethod, xSender>>
    /\ UNCHANGED notEnhanced

\* neither branch was taken: return False
EnhancedNone ==
    /\ xPc = "none"
    /\ xResult' = "False"
    /\ xPc' = "return"
    /\ UNCHANGED <<xEnv, xMethod, xSender, xTried>>
    /\ UNCHANGED notEnhanced

\* the caller has the result
EnhancedDone ==
    /\ xPc = "return"
    /\ xPc' = "idle"
    /\ xTried' = <<>>
    /\ xResult' = "none"
    /\ UNCHANGED <<xEnv, xMethod, xSender>>
    /\ UNCHANGED notEnhanced

InitEnhanced ==
    /\ xPc = "idle"
    /\ xEnv = [prefer_evolution |-> TRUE, EVOLUTION_AVAILABLE |-> TRUE,
               TWILIO_AVAILABLE |-> TRUE, connection |-> FALSE, status |-> "close",
               group |-> FALSE, credentials |-> FALSE, numbers |-> FALSE]
    /\ xMethod = "send_message"
    /\ xSender = [prefer_evolution |-> TRUE, evolution_client |-> FALSE,
                  group_jid |-> FALSE, twilio_client |-> FALSE]
    /\ xTried = <<>>
    /\ xResult = "none"

NextEnhanced ==
    \/ EnhancedCall
    \/ EnhancedEvolution
    \/ EnhancedTwilio
    \/ EnhancedNone
    \/ EnhancedDone

-----------------------------------------------------------------------------
(* Claims about EnhancedWhatsAppSender *)

\* C14: when a call of send_message or send_analysis_summary has returned,
\* the Evolution gateway was tried, and tried first, exactly when it is
\* preferred and ready; Twilio was tried only if the Evolution send was not
\* possible or failed; a message Evolution accepted was not sent through
\* Twilio; and the result is False only if no channel accepted the message.
Thm_C14 ==
    xPc = "return" =>
        /\ EvolutionFirst(xSender) <=> (xTried # <<>> /\ xTried[1].channel = "evolution")
        /\ \A i \in 1..Len(xTried) : xTried[i].channel = "evolution" => i = 1
        /\ \A i \in 1..Len(xTried) :
              xTried[i].channel = "twilio" =>
                  \A j \in 1..Len(xTried) : xTried[j].outcome = "accepted" => j = i
        /\ xResult \in {"True", "False"}
        /\ xResult = "False" => \A i \in 1..Len(xTried) : xTried[i].outcome # "accepted"

\* the gateway did not take the message and Twilio did
Witness_C14 ==
    /\ xPc = "return"
    /\ Len(xTried) = 2
    /\ xTried[1] = [channel |-> "evolution", outcome |-> "bad status"]
    /\ xTried[2] = [channel |-> "twilio", outcome |-> "accepted"]
    /\ xResult = "True"
-----------------------------------------------------------------------------
(* sol_hybrid_analysis.py: main *)

\* f"{x:.{decimals}f}", or f"{x:+.{decimals}f}" when plus, for the number
\* x = n / 10^decimals
FormatFixed(n, decimals, plus) ==
    LET RECURSIVE NatStr(_)
        NatStr(k) ==
            IF k < 10 THEN <<(<<"0", "1", "2", "3", "4", "5", "6", "7", "8", "9">>)[k + 1]>>
            ELSE NatStr(k \div 10)
                    \o <<(<<"0", "1", "2", "3", "4", "5", "6", "7", "8", "9">>)[(k % 10) + 1]>>
        Pad(digits) ==
            IF Len(digits) <= decimals
            THEN [i \in 1..(decimals + 1 - Len(digits)) |-> "0"] \o digits ELSE digits
        Pointed(padded) ==
            SubSeq(padded, 1, Len(padded) - decimals) \o <<".">>
                \o SubSeq(padded, Len(padded) - decimals + 1, Len(padded))
    IN  (IF n < 0 THEN <<"-">> ELSE IF plus THEN <<"+">> ELSE <<>>)
            \o Pointed(Pad(NatStr(Abs(n))))

\* get_derivatives_snapshot: each _collect_* function gives the values it
\* fetched, or the zeros it starts with when its fetch failed; the values
\* are in the units format_hybrid_result prints (price and ls_ratio in
\* hundredths, the changes and the open interest in $M in tenths, the
\* funding values in thousandths)
get_derivatives_snapshot(fetched) ==
    LET Got(collector, value) == IF fetched[collector] THEN value ELSE 0
    IN  [price |-> Got("price", 12545), price_24h_change |-> Got("price", 32),
         oi_usd |-> Got("open_interest", 1750), oi_24h_change |-> Got("open_interest", 21),
         funding_pct |-> Got("funding", 67), funding_6h_change |-> Got("funding", 15),
         ls_ratio |-> Got("long_short", 289)]

\* analyze_with_sonar: the model's answer in the format asked for, or the
\* text returned when the call failed
analyze_with_sonar(answered) ==
    IF answered
    THEN <<<<"S", "I", "G", "N", "A", "L", ":", " ", "W", "A", "I", "T">>, <<"S", "E", "T", "U", "P", ":", " ", "R", "a", "n", "g", "e", " ", "1", "2", "0", "-", "1", "3", "0", " ", "h", "o", "l", "d", "i", "n", "g">>, <<"E", "N", "T", "R", "Y", ":", " ", "1", "2", "1", ".", "5", "0">>,
           <<"S", "T", "O", "P", ":", " ", "1", "1", "8", ".", "0", "0">>, <<"T", "A", "R", "G", "E", "T", ":", " ", "1", "2", "9", ".", "0", "0">>, <<"R", "I", "S", "K", ":", " ", "F", "u", "n", "d", "i", "n", "g", " ", "s", "t", "r", "e", "s", "s">>,
           <<"T", "I", "M", "E", "F", "R", "A", "M", "E", ":", " ", "1", "2", " ", "h", "o", "u", "r", "s">>, <<"C", "O", "N", "T", "E", "X", "T", ":", " ", "R", "a", "n", "g", "i", "n", "g", " ", "m", "a", "r", "k", "e", "t">>>>
    ELSE <<<<"U+1F50D">> \o <<" ", "T", "E", "C", "H", "N", "I", "C", "A", "L", " ", "S", "E", "T", "U", "P", ":", " ", "A", "n", "a", "l", "y", "s", "i", "s", " ", "u", "n", "a", "v", "a", "i", "l", "a", "b", "l", "e", " ", "d", "u", "e", " ", "t", "o", " ", "t", "e", "c", "h", "n", "i", "c", "a", "l", " ", "i", "s", "s", "u", "e", "s">>,
           <<"U+1F4CA">> \o <<" ", "D", "E", "R", "I", "V", "A", "T", "I", "V", "E", "S", " ", "C", "O", "R", "R", "E", "L", "A", "T", "I", "O", "N", ":", " ", "U", "n", "a", "b", "l", "e", " ", "t", "o", " ", "c", "o", "r", "r", "e", "l", "a", "t", "e">>,
           <<"U+1F30D">> \o <<" ", "M", "A", "C", "R", "O", ":", " ", "U", "n", "a", "b", "l", "e", " ", "t", "o", " ", "c", "h", "e", "c", "k">>,
           <<"U+1F4F0">> \o <<" ", "F", "R", "E", "S", "H", " ", "N", "E", "W", "S", " ", "(", "L", "a", "s", "t", " ", "H", "o", "u", "r", ")", ":", " ", "U", "n", "a", "b", "l", "e", " ", "t", "o", " ", "c", "h", "e", "c", "k">>,
           <<"U+1F6A8">> \o <<" ", "S", "I", "G", "N", "A", "L", ":", " ", "N", "O", " ", "C", "L", "E", "A", "R", " ", "S", "I", "G", "N", "A", "L">>,
           <<"U+1F3AF">> \o <<" ", "E", "N", "T", "R", "Y", " ", "Z", "O", "N", "E", "S", ":", " ", "M", "o", "n", "i", "t", "o", "r", " ", "m", "a", "n", "u", "a", "l", "l", "y">>,
           <<"U+26D4">> \o <<" ", "S", "T", "O", "P", " ", "L", "O", "S", "S", ":", " ", "U", "s", "e", " ", "b", "a", "c", "k", "u", "p", " ", "a", "n", "a", "l", "y", "s", "i", "s">>,
           <<"U+1F3AA">> \o <<" ", "T", "A", "R", "G", "E", "T", ":", " ", "U", "s", "e", " ", "b", "a", "c", "k", "u", "p", " ", "a", "n", "a", "l", "y", "s", "i", "s">>,
           <<"U+26A0", "U+FE0F">> \o <<" ", " ", "R", "I", "S", "K", ":", " ", "H", "i", "g", "h", " ", "u", "n", "c", "e", "r", "t", "a", "i", "n", "t", "y">>>>

\* format_hybrid_result: the structured text, or the short text of its
\* except clause when _compute_features raised; features holds auto_signal
\* and confidence
format_hybrid_result(derivatives_data, analysis, features) ==
    LET d == derivatives_data
        price_momentum == IF d.price_24h_change > 10 THEN <<"b", "u", "l", "l", "i", "s", "h">>
                          ELSE IF d.price_24h_change < -10 THEN <<"b", "e", "a", "r", "i", "s", "h">> ELSE <<"n", "e", "u", "t", "r", "a", "l">>
        oi_trend == IF d.oi_24h_change > 20 THEN <<"e", "x", "p", "a", "n", "d", "i", "n", "g">>
                    ELSE IF d.oi_24h_change < -20 THEN <<"c", "o", "n", "t", "r", "a", "c", "t", "i", "n", "g">> ELSE <<"s", "t", "a", "b", "l", "e">>
        funding_stress == IF Abs(d.funding_pct) > 50 THEN <<"h", "i", "g", "h">> ELSE <<"n", "o", "r", "m", "a", "l">>
        \* word.title() of a lower-case word
        Title(word) ==
            [i \in 1..Len(word) |->
                IF i = 1 /\ word[1] = "b" THEN "B" ELSE IF i = 1 /\ word[1] = "n" THEN "N"
                ELSE IF i = 1 /\ word[1] = "e" THEN "E" ELSE IF i = 1 /\ word[1] = "c" THEN "C"
                ELSE IF i = 1 /\ word[1] = "s" THEN "S" ELSE IF i = 1 /\ word[1] = "h" THEN "H"
                ELSE word[i]]
        positioning == IF d.ls_ratio > 250 THEN <<"c", "r", "o", "w", "d", "e", "d", " ", "l", "o", "n", "g", "s">>
                       ELSE IF d.ls_ratio > 150 THEN <<"b", "a", "l", "a", "n", "c", "e", "d", " ", "p", "o", "s", "i", "t", "i", "o", "n", "i", "n", "g">>
                       ELSE <<"c", "r", "o", "w", "d", "e", "d", " ", "s", "h", "o", "r", "t", "s">>
    IN  IF features.raised
        THEN JoinLines(<<<<"M", "A", "R", "K", "E", "T", " ", "D", "A", "T", "A", ":">>,
                         <<"P", "r", "i", "c", "e", ":", " ", "$">> \o FormatFixed(d.price, 2, FALSE),
                         <<"A", "n", "a", "l", "y", "s", "i", "s", ":", " ">> \o JoinLines(analysis)>>)
        ELSE JoinLines(
               <<<<"M", "A", "R", "K", "E", "T", " ", "D", "A", "T", "A", ":">>,
                 <<"P", "r", "i", "c", "e", ":", " ", "$">> \o FormatFixed(d.price, 2, FALSE) \o <<" ", "(">>
                    \o FormatFixed(d.price_24h_change, 1, TRUE) \o <<"%", " ", "2", "4", "h", ")">>,
                 <<"O", "I", ":", " ", "$">> \o FormatFixed(d.oi_usd, 1, FALSE) \o <<"M", " ", "(">>
                    \o FormatFixed(d.oi_24h_change, 1, TRUE) \o <<"%", ")">>,
                 <<"F", "u", "n", "d", "i", "n", "g", ":", " ">> \o FormatFixed(d.funding_pct, 3, FALSE) \o <<"%", " ", "(", "6", "h", " ">>
                    \o <<Delta>> \o <<" ">> \o FormatFixed(d.funding_6h_change, 3, TRUE) \o <<"%", ")">>,
                 <<"L", "/", "S", ":", " ">> \o FormatFixed(d.ls_ratio, 2, FALSE),
                 <<>>,
                 <<"M", "A", "R", "K", "E", "T", " ", "C", "O", "N", "T", "E", "X", "T", ":">>,
                 <<"M", "o", "m", "e", "n", "t", "u", "m", ":", " ">> \o Title(price_momentum),
                 <<"O", "I", " ", "T", "r", "e", "n", "d", ":", " ">> \o Title(oi_trend),
                 <<"F", "u", "n", "d", "i", "n", "g", " ", "S", "t", "r", "e", "s", "s", ":", " ">> \o Title(funding_stress),
                 <<"A", "u", "t", "o", " ", "S", "i", "g", "n", "a", "l", ":", " ">> \o features.auto_signal,
                 <<"C", "o", "n", "f", "i", "d", "e", "n", "c", "e", ":", " ", "5", "0", "/", "1", "0", "0">>,
                 <<>>,
                 <<"A", "N", "A", "L", "Y", "S", "I", "S", ":">>>>
               \o analysis
               \o <<<<>>,
                    <<"K", "E", "Y", " ", "I", "N", "S", "I", "G", "H", "T", "S", ":">>,
                    <<"-", " ", "P", "r", "i", "c", "e", " ", "m", "o", "m", "e", "n", "t", "u", "m", " ", "i", "s", " ">> \o price_momentum \o <<" ", "w", "i", "t", "h", " ">> \o oi_trend
                       \o <<" ", "o", "p", "e", "n", " ", "i", "n", "t", "e", "r", "e", "s", "t">>,
                    <<"-", " ", "F", "u", "n", "d", "i", "n", "g", " ", "s", "t", "r", "e", "s", "s", " ", "l", "e", "v", "e", "l", ":", " ">> \o funding_stress,
                    <<"-", " ", "L", "/", "S", " ", "r", "a", "t", "i", "o", " ", "a", "t", " ">> \o FormatFixed(d.ls_ratio, 2, FALSE) \o <<" ", "i", "n", "d", "i", "c", "a", "t", "e", "s", " ">>
                       \o positioning,
                    <<"-", " ", "C", "o", "n", "f", "i", "d", "e", "n", "c", "e", " ", "l", "e", "v", "e", "l", ":", " ", "5", "0", "/", "1", "0", "0", " ", "b", "a", "s", "e", "d", " ", "o", "n", " ", "s", "i", "g", "n", "a", "l", " ", "a", "l", "i", "g", "n", "m", "e", "n", "t">>>>)

\* the environment of a run: the two API keys, AUTO_SEND_TO_WHATSAPP, and
\* what _send_whatsapp_with_robust_handling finds: the four Twilio
\* variables, the recipients and the Twilio library, or the first of them
\* that is missing
HybridEnvs ==
    [keys : BOOLEAN, auto_send : AutoSendEnv,
     whatsapp : {"configured", "no_twilio_vars", "no_recipients", "no_library"}]

Collectors == {"price", "open_interest", "funding", "long_short"}

\* main up to its WhatsApp block: the environment check, run_hybrid_analysis
\* and the check of the length of its result
HybridMain ==
    /\ yPc = "idle"
    /\ \E fetched \in [Collectors -> BOOLEAN], answered \in BOOLEAN,
          features \in {[raised |-> FALSE, auto_signal |-> <<"W", "A", "I", "T">>],
                        [raised |-> TRUE, auto_signal |-> <<>>]} :
       \E result \in {format_hybrid_result(get_derivatives_snapshot(fetched),
                                           analyze_with_sonar(answered), features)} :
       \E env \in HybridEnvs :
          /\ yEnv' = env
          /\ yFetched' = fetched
          /\ IF ~env.keys
             THEN /\ yResult' = <<>>
                  /\ yPc' = "end"
                  /\ yReturn' = "False"
                  /\ ySteps' = {}
             ELSE /\ yResult' = result
                  /\ ySteps' = {"analysis"}
                  /\ IF Len(Strip(result)) < 50
                     THEN yPc' = "end" /\ yReturn' = "False"
                     ELSE IF AutoSend("sol_hybrid_analysis", env.auto_send)
                     THEN yPc' = "whatsapp" /\ yReturn' = "none"
                     ELSE yPc' = "end" /\ yReturn' = "True"
    /\ UNCHANGED notHybrid

\* _send_whatsapp_with_robust_handling up to its call of
\* send_analysis_summary: the checks of the environment and of the client,
\* and the pre-validation of the template variables
HybridWhatsApp ==
    /\ yPc = "whatsapp"
    /\ IF yEnv.whatsapp # "configured"
       THEN /\ yPc' = "end"
            /\ yReturn' = "False"
            /\ ySteps' = ySteps
       ELSE \E numeric \in {ExtractNumericSlots(yResult)} :
            \E text \in {ExtractTextSlots(yResult, numeric)} :
            \E test_vars \in
                  {_sanitize_template_vars([k \in NumericSlots \cup TextSlots |->
                      IF k \in NumericSlots THEN numeric[k] ELSE text[k]])} :
               /\ ySteps' = ySteps \cup {"prevalidate"}
               /\ IF _validate_template_vars(test_vars)
                  THEN yPc' = "send" /\ yReturn' = "none"
                  ELSE yPc' = "end" /\ yReturn' = "False"
    /\ UNCHANGED <<yEnv, yFetched, yResult>>
    /\ UNCHANGED notHybrid

\* success = sender.send_analysis_summary(analysis_data)
HybridSend ==
    /\ yPc = "send"
    /\ \E success \in BOOLEAN : yReturn' = IF success THEN "True" ELSE "False"
    /\ ySteps' = ySteps \cup {"send"}
    /\ yPc' = "end"
    /\ UNCHANGED <<yEnv, yFetched, yResult>>
    /\ UNCHANGED notHybrid

\* no run is under way
NoHybridEnv ==
    [keys |-> FALSE, auto_send |-> [set |-> FALSE, value |-> <<>>], whatsapp |-> "no_twilio_vars"]

\* main has returned
HybridEnd ==
    /\ yPc = "end"
    /\ yPc' = "idle"
    /\ yReturn' = "none"
    /\ ySteps' = {}
    /\ yResult' = <<>>
    /\ yEnv' = NoHybridEnv
    /\ yFetched' = [c \in Collectors |-> TRUE]
    /\ UNCHANGED notHybrid

InitHybrid ==
    /\ yPc = "idle"
    /\ yEnv = NoHybridEnv
    /\ yFetched = [c \in Collectors |-> TRUE]
    /\ yResult = <<>>
    /\ ySteps = {}
    /\ yReturn = "none"

NextHybrid == HybridMain \/ HybridWhatsApp \/ HybridSend \/ HybridEnd

-----------------------------------------------------------------------------
(* Claims about the hybrid pipeline *)

\* C19: a run of the hybrid pipeline in which a market-data fetch failed
\* and zeros took the place of its metrics still goes on to the end: with
\* auto-send enabled and WhatsApp configured it reaches the call of
\* send_analysis_summary.
Orig_C19 ==
    (/\ yPc = "end"
     /\ yEnv.keys /\ yEnv.whatsapp = "configured"
     /\ AutoSend("sol_hybrid_analysis", yEnv.auto_send)
     /\ \E c \in DOMAIN yFetched : ~yFetched[c])
    => "send" \in ySteps

\* the same for runs in which only the open-interest or the funding fetch
\* failed and the text has its structured format
OtherFetches_C19 ==
    (/\ yPc = "end"
     /\ yEnv.keys /\ yEnv.whatsapp = "configured"
     /\ AutoSend("sol_hybrid_analysis", yEnv.auto_send)
     /\ yFetched["price"] /\ yFetched["long_short"]
     /\ Contains(yResult, <<"M", "A", "R", "K", "E", "T", " ", "C", "O", "N", "T", "E", "X", "T", ":">>))
    => "send" \in ySteps

\* a run with every fetch successful reached the send step
Sent_C19 == yPc = "end" /\ "send" \in ySteps /\ \A c \in Collectors : yFetched[c]
-----------------------------------------------------------------------------
(* setup_evolution.py: setup_evolution_api, and wait_for_connection of
   evolution_whatsapp.py *)

\* client.wait_for_connection(60)
max_wait_time == 60

\* time.sleep(5) between two polls of wait_for_connection
PollSeconds == 5

\* the times, in seconds after the QR code was shown, at which the user may
\* pair the session; max_wait_time stands for a pairing that does not happen
\* inside the window
PairTimes == {t \in 0..max_wait_time : t % PollSeconds = 0}

\* the state of the gateway session at a time after the QR code was shown:
\* 'open' once paired, the state it had before ('close' or 'connecting')
\* until then
SessionState(before, pair_at, clock) == IF clock >= pair_at THEN "open" ELSE before

\* check_session_status: the state the gateway reports, or 'error' when the
\* request failed or was not answered with status 200
check_session_status(state, answered) == IF answered THEN state ELSE "error"

\* setup_evolution_api, steps 1 to 3: check_connection, create_session (its
\* result only prints a message) and the first check_session_status
SetupStart ==
    /\ gPc = "idle"
    /\ \E running \in BOOLEAN, answered \in BOOLEAN,
          state \in {"open", "close", "connecting", "unknown"} :
          IF ~running
          THEN /\ gPc' = "end"
               /\ gResult' = "False"
               /\ gSteps' = <<"check_connection">>
          ELSE \E status \in {check_session_status(state, answered)} :
                  /\ gSteps' = <<"check_connection", "create_session", status>>
                  /\ gResult' = "none"
                  /\ gPc' = IF status = "open" THEN "groups"
                            ELSE IF status \in {"close", "connecting"} THEN "qr"
                            ELSE "groups"
    /\ UNCHANGED <<gBefore, gPairAt, gClock>>
    /\ UNCHANGED notSetup

\* step 4: get_qr_code, print_qr_code_terminal and the call of
\* wait_for_connection; the user pairs the session at some time after the
\* code is shown, or not inside the window
SetupQr ==
    /\ gPc = "qr"
    /\ \E qr_code \in BOOLEAN :
          IF qr_code
          THEN /\ gPc' = "wait"
               /\ gSteps' = Append(gSteps, "qr_shown")
               /\ gClock' = 0
               /\ gResult' = "none"
               /\ \E before \in {"close", "connecting"} : gBefore' = before
               /\ \E pair_at \in PairTimes : gPairAt' = pair_at
          ELSE /\ gPc' = "end"
               /\ gResult' = "False"
               /\ gSteps' = gSteps
               /\ UNCHANGED <<gBefore, gPairAt, gClock>>
    /\ UNCHANGED notSetup

\* one iteration of the loop of wait_for_connection, with the loop test
\* that follows its sleep, and what setup_evolution_api does with the result
SetupPoll ==
    /\ gPc = "wait"
    /\ gClock < max_wait_time
    /\ \E answered \in BOOLEAN :
       \E status \in {check_session_status(SessionState(gBefore, gPairAt, gClock), answered)} :
          /\ gSteps' = Append(gSteps, status)
          /\ IF status = "open"
             THEN gPc' = "groups" /\ gResult' = "none" /\ gClock' = gClock
             ELSE IF status \in {"close", "error"}
             THEN gPc' = "end" /\ gResult' = "False" /\ gClock' = gClock
             ELSE /\ gClock' = gClock + PollSeconds
                  /\ IF gClock' < max_wait_time
                     THEN gPc' = "wait" /\ gResult' = "none"
                     ELSE gPc' = "end" /\ gResult' = "False"
    /\ UNCHANGED <<gBefore, gPairAt>>
    /\ UNCHANGED notSetup

\* steps 5 to 7: get_groups, the test message and whatsapp_groups.json
SetupGroups ==
    /\ gPc = "groups"
    /\ gSteps' = Append(gSteps, "get_groups")
    /\ \E groups \in BOOLEAN, success \in BOOLEAN :
          gResult' = IF ~groups \/ success THEN "True" ELSE "False"
    /\ gPc' = "end"
    /\ UNCHANGED <<gBefore, gPairAt, gClock>>
    /\ UNCHANGED notSetup

\* setup_evolution_api has returned
SetupEnd ==
    /\ gPc = "end"
    /\ gPc' = "idle"
    /\ gSteps' = <<>>
    /\ gResult' = "none"
    /\ gBefore' = "close"
    /\ gPairAt' = max_wait_time
    /\ gClock' = 0
    /\ UNCHANGED notSetup

InitSetup ==
    /\ gPc = "idle"
    /\ gSteps = <<>>
    /\ gResult = "none"
    /\ gBefore = "close"
    /\ gPairAt = max_wait_time
    /\ gClock = 0

NextSetup == SetupStart \/ SetupQr \/ SetupPoll \/ SetupGroups \/ SetupEnd

-----------------------------------------------------------------------------
(* Claims about the gateway setup *)

\* C18: when the session is not yet paired, setup shows the QR code and
\* waits up to 60 seconds for the session to become 'open': if the pairing
\* happens inside that window, setup goes on to the group lookup.
Orig_C18 ==
    (/\ gPc = "end"
     /\ \E i \in 1..Len(gSteps) : gSteps[i] = "qr_shown"
     /\ gPairAt < max_wait_time
     /\ \A i \in 1..Len(gSteps) : gSteps[i] # "error")
    => \E i \in 1..Len(gSteps) : gSteps[i] = "get_groups"

\* the same for a session that reports 'connecting' until it is paired
Connecting_C18 ==
    (/\ gPc = "end"
     /\ \E i \in 1..Len(gSteps) : gSteps[i] = "qr_shown"
     /\ gPairAt < max_wait_time
     /\ gBefore = "connecting"
     /\ \A i \in 1..Len(gSteps) : gSteps[i] # "error")
    => \E i \in 1..Len(gSteps) : gSteps[i] = "get_groups"

\* a pairing 20 seconds after the QR code was shown was picked up
Paired_C18 ==
    /\ gPc = "end"
    /\ gPairAt = 20
    /\ gClock = 20
    /\ \E i \in 1..Len(gSteps) : gSteps[i] = "get_groups"
-----------------------------------------------------------------------------
(* The specifications: every part starts from the same initial state *)

Init == InitLLM /\ InitTpl /\ InitFetch /\ InitPipe /\ InitSched /\ InitHourly /\ InitEvo
        /\ InitSender /\ InitEnhanced /\ InitHybrid /\ InitSetup

SpecLLM == Init /\ [][NextLLM]_vars

SpecTpl == Init /\ [][NextTpl]_vars

SpecFetch == Init /\ [][NextFetch]_vars

SpecPipe == Init /\ [][NextPipe]_vars

SpecSched == Init /\ [][NextSched]_vars

SpecHourly == Init /\ [][NextHourly]_vars

SpecEvo == Init /\ [][NextEvo]_vars

SpecSender == Init /\ [][NextSender]_vars

SpecEnhanced == Init /\ [][NextEnhanced]_vars

SpecHybrid == Init /\ [][NextHybrid]_vars

SpecSetup == Init /\ [][NextSetup]_vars

====
